---------------------------- MODULE Spec2Model ----------------------------
(***************************************************************************)
(* Model of the Armory scene exporter (blender/arm/exporter.py).           *)
(*                                                                         *)
(* Seven groups of state, each with its own specification:                 *)
(*   SpecMesh   the geometry deduplicator: deindex_mesh / unify_vertices   *)
(*              (export_mesh_quality) and the Vertex dictionary            *)
(*              (export_mesh_fast);                                        *)
(*   SpecSkin   the per-vertex bone influence packing of                   *)
(*              export_skin_quality;                                       *)
(*   SpecCache  the incremental mesh cache of do_export_mesh / write_mesh; *)
(*   SpecExec   one execute run: export_object (with sampled animation),   *)
(*              export_materials, export_objects;                          *)
(*   SpecCurve  the animation curve classifier on one f-curve:             *)
(*              classify_animation_curve, animation_present,               *)
(*              export_animation_track;                                    *)
(*   SpecAnim   the transform export of one object with an action:         *)
(*              export_object_transform;                                   *)
(*   SpecWalk   the scene graph walker of execute: process_bobject,        *)
(*              export_object, export_bone and the document's top level.   *)
(*                                                                         *)
(* Floats are modelled by exact values: mesh attributes are small          *)
(* non-negative integer-valued floats (for which Python's hash(x) is x),   *)
(* skin weights are exact rationals <<numerator, denominator>>.            *)
(***************************************************************************)
EXTENDS Integers, Sequences, FiniteSets, TLC

VARIABLES
    mesh,       \* the mesh handed to export_mesh_quality / export_mesh_fast
    quality,    \* result of export_mesh_quality, or NotRun
    fast,       \* result of export_mesh_fast, or NotRun
    skin_in,    \* input of export_skin_quality
    skin_out,   \* result of export_skin_quality, or NotRun
    data,       \* mesh data-blocks: counts and cache entry
    files,      \* mesh artifacts present on the output target
    host,       \* per mesh data-block: does bobject.to_mesh yield a mesh
    morph,      \* per mesh data-block: the shape-key state of its object
    materials,  \* material data-blocks: stored export flags
    shader,     \* per material: vertex structure the shader builder returns
    scene,      \* frame_current / frame_subframe of the scene
    pc,         \* position of the execute run
    run,        \* what the current execute run / last call has done
    fcurve,     \* the f-curve handed to the curve classifier
    curve_out,  \* result of the last call on that f-curve, or NotRun
    anim_in,    \* the object handed to export_object_transform
    anim_out,   \* result of export_object_transform, or NotRun
    tree,       \* the scene the walker exports: objects, armature, cache
    doc         \* what the last execute wrote: scene document and bone files

vars == <<mesh, quality, fast, skin_in, skin_out, data, files, host, morph,
          materials, shader, scene, pc, run, fcurve, curve_out, anim_in, anim_out,
          tree, doc>>

meshVars == <<mesh, quality, fast>>
skinVars == <<skin_in, skin_out>>
execVars == <<data, files, host, morph, materials, shader, scene, pc, run>>
animVars == <<fcurve, curve_out, anim_in, anim_out>>
walkVars == <<tree, doc>>

NotRun == [not_run |-> TRUE]

\* ------------------------------------------------------------------------
\* Generic helpers
\* ------------------------------------------------------------------------

RECURSIVE BitAnd(_, _)
\* a & b for non-negative integers
BitAnd(a, b) ==
    IF a = 0 \/ b = 0 THEN 0
    ELSE (a % 2) * (b % 2) + 2 * BitAnd(a \div 2, b \div 2)

RECURSIVE Flatten(_)
\* concatenation of a sequence of sequences
Flatten(ss) == IF ss = <<>> THEN <<>> ELSE Head(ss) \o Flatten(Tail(ss))

\* the statements after a call see the call's result: Continue applied to
\* the value of the first argument
Then(value, Continue(_)) == CHOOSE out \in { Continue(v) : v \in { value } } : TRUE

RECURSIVE GCD(_, _)
GCD(a, b) == IF b = 0 THEN a ELSE GCD(b, a % b)

\* the elements of a sequence
Range(s) == { s[i] : i \in DOMAIN s }


\* ------------------------------------------------------------------------
\* Meshes handed to the exporter
\* ------------------------------------------------------------------------

\* Bounds of the mesh model
MaxFaces == 3

\* mesh.vertices: position and normal of each topological vertex.  Vertex 4
\* duplicates the attributes of vertex 0 under another vertex index.
VertexTable ==
    << [co |-> <<0, 0, 0>>, normal |-> <<0, 0, 1>>],
       [co |-> <<1, 0, 0>>, normal |-> <<0, 0, 1>>],
       [co |-> <<1, 1, 0>>, normal |-> <<0, 0, 1>>],
       [co |-> <<0, 1, 0>>, normal |-> <<0, 0, 1>>],
       [co |-> <<0, 0, 0>>, normal |-> <<0, 0, 1>>] >>

\* mesh.materials of every modelled mesh: three named slots
MeshMaterials ==
    << [name |-> "MatA", export_uvs |-> TRUE,  export_vcols |-> TRUE,  export_tangents |-> FALSE],
       [name |-> "MatB", export_uvs |-> FALSE, export_vcols |-> FALSE, export_tangents |-> FALSE],
       [name |-> "MatC", export_uvs |-> FALSE, export_vcols |-> FALSE, export_tangents |-> FALSE] >>

FaceVariants == { "plain", "red", "uvshift", "flat" }

\* One face of the input mesh: its corner vertex indices, shading, material
\* slot, and the per-corner colour and UV data of the colour / UV layers.
MakeFace(shape, variant) ==
    [ vertices       |-> shape,
      use_smooth     |-> (variant # "flat"),
      normal         |-> <<1, 0, 0>>,
      material_index |-> (CASE variant = "red" -> 1
                            [] variant = "uvshift" -> 2
                            [] OTHER -> 0),
      color          |-> [k \in DOMAIN shape |->
                             IF variant = "red" /\ k = 1 THEN <<1, 0, 0>> ELSE <<1, 1, 1>>],
      uv             |-> [k \in DOMAIN shape |->
                             IF variant = "uvshift" THEN <<1, 1>>
                             ELSE <<VertexTable[shape[k] + 1].co[1], VertexTable[shape[k] + 1].co[2]>>],
      uv1            |-> [k \in DOMAIN shape |->
                             <<VertexTable[shape[k] + 1].co[2], VertexTable[shape[k] + 1].co[1]>>] ]

FacePalette ==
    { MakeFace(<<0, 1, 2>>, va) : va \in FaceVariants }
        \cup { MakeFace(<<1, 2, 3, 4>>, va) : va \in { "plain", "red" } }
        \cup { MakeFace(<<0, 1, 2, 4>>, va) : va \in { "plain", "red" } }

\* <<number of colour layers, number of UV layers>> of the modelled meshes
\* and whether a material asks for tangents
LayerOptions == { <<0, 0, FALSE>>, <<1, 1, FALSE>>, <<1, 2, FALSE>>, <<1, 1, TRUE>> }

\* the material slots of a mesh one of whose materials asks for tangents
TangentMaterials == [MeshMaterials EXCEPT ![1].export_tangents = TRUE]

RECURSIVE SeqsUpTo(_, _)
\* all sequences over S of length 0..n
SeqsUpTo(S, n) ==
    IF n = 0 THEN { <<>> }
    ELSE LET shorter == SeqsUpTo(S, n - 1)
         IN shorter \cup { Append(s, x) : s \in { t \in shorter : Len(t) = n - 1 }, x \in S }

MeshInputs ==
    { [ vertices |-> VertexTable, faces |-> fs, color_count |-> lo[1],
        texcoordCount |-> lo[2],
        materials |-> IF lo[3] THEN TangentMaterials ELSE MeshMaterials ] :
        fs \in SeqsUpTo(FacePalette, MaxFaces), lo \in LayerOptions }

\* ------------------------------------------------------------------------
\* ExportVertex (quality path)
\* ------------------------------------------------------------------------

\* Python's hash(x) of a non-negative integer-valued float is the integer.
HashFloat(x) == x

\* The model keeps the low 16 bits of ExportVertex.hash: enough for the
\* bucket mask, and equal attributes give equal hashes either way.
HashMod == 2 ^ 16

HashStep(h, x) == (h * 21737 + HashFloat(x)) % HashMod

\* ExportVertex.Hash
Hash(ev) ==
    LET h0  == HashFloat(ev.position[1]) % HashMod
        h1  == HashStep(h0, ev.position[2])
        h2  == HashStep(h1, ev.position[3])
        h3  == HashStep(h2, ev.normal[1])
        h4  == HashStep(h3, ev.normal[2])
        h5  == HashStep(h4, ev.normal[3])
        h6  == HashStep(h5, ev.color[1])
        h7  == HashStep(h6, ev.color[2])
        h8  == HashStep(h7, ev.color[3])
        h9  == HashStep(h8, ev.texcoord0[1])
        h10 == HashStep(h9, ev.texcoord0[2])
        h11 == HashStep(h10, ev.texcoord1[1])
    IN  HashStep(h11, ev.texcoord1[2])

\* ExportVertex.__eq__
ExportVertexEq(a, b) ==
    IF a.hash # b.hash THEN FALSE
    ELSE IF a.position # b.position THEN FALSE
    ELSE IF a.normal # b.normal THEN FALSE
    ELSE IF a.texcoord0 # b.texcoord0 THEN FALSE
    ELSE IF a.color # b.color THEN FALSE
    ELSE IF a.texcoord1 # b.texcoord1 THEN FALSE
    ELSE TRUE

\* a split of the quad along its other diagonal
RawCornersOtherDiagonal(face) ==
    IF Len(face.vertices) = 4 THEN <<1, 2, 4, 2, 3, 4>> ELSE <<1, 2, 3>>

\* Corners of a tessface that become raw vertices: (0,1,2), and (0,2,3) for a quad
RawCorners(face) ==
    IF Len(face.vertices) = 4 THEN <<1, 2, 3, 1, 3, 4>> ELSE <<1, 2, 3>>

\* The ExportVertex structures deindex_mesh creates for one face
DeindexFace(m, face, face_index) ==
    [ r \in DOMAIN RawCorners(face) |->
        LET c  == RawCorners(face)[r]
            k  == face.vertices[c]
            v  == m.vertices[k + 1]
            e0 == [ vertex_index |-> k,
                    face_index   |-> face_index,
                    position     |-> v.co,
                    normal       |-> IF face.use_smooth THEN v.normal ELSE face.normal,
                    color        |-> IF m.color_count > 0 THEN face.color[c] ELSE <<1, 1, 1>>,
                    texcoord0    |-> IF m.texcoordCount > 0
                                     THEN <<face.uv[c][1], 1 - face.uv[c][2]>> ELSE <<0, 0>>,
                    texcoord1    |-> IF m.texcoordCount > 1
                                     THEN <<face.uv1[c][1], 1 - face.uv1[c][2]>> ELSE <<0, 0>> ]
        IN  [ vertex_index |-> e0.vertex_index, face_index |-> e0.face_index,
              position |-> e0.position, normal |-> e0.normal, color |-> e0.color,
              texcoord0 |-> e0.texcoord0, texcoord1 |-> e0.texcoord1, hash |-> Hash(e0) ] ]

\* deindex_mesh: the raw vertex array and the material table (one entry per triangle)
deindex_mesh(m) ==
    [ export_vertex_array |->
          Flatten([f \in DOMAIN m.faces |-> DeindexFace(m, m.faces[f], f - 1)]),
      material_table |->
          Flatten([f \in DOMAIN m.faces |->
                      IF Len(m.faces[f].vertices) = 4
                      THEN <<m.faces[f].material_index, m.faces[f].material_index>>
                      ELSE <<m.faces[f].material_index>>]) ]

\* ------------------------------------------------------------------------
\* unify_vertices
\* ------------------------------------------------------------------------

RECURSIVE RoundDownPow2(_)
\* "Round down to nearest power of two": clear low bits until one is left
RoundDownPow2(bucketCount) ==
    LET count == BitAnd(bucketCount, bucketCount - 1)
    IN  IF count = 0 THEN bucketCount ELSE RoundDownPow2(count)

\* bucketCount of unify_vertices for n raw vertices
BucketCount(n) ==
    LET bucketCount == n \div 8
    IN  IF bucketCount > 1 THEN RoundDownPow2(bucketCount) ELSE 1

RECURSIVE FindInBucket(_, _, _)
\* the bucket scan: the first raw index b of the bucket with
\* export_vertex_array[b] == ev, or -1
FindInBucket(eva, bucket, ev) ==
    IF bucket = <<>> THEN -1
    ELSE IF ExportVertexEq(eva[Head(bucket) + 1], ev) THEN Head(bucket)
    ELSE FindInBucket(eva, Tail(bucket), ev)

\* on a match the alias is the raw index found, not its welded slot
UnifyStepAliasRaw(eva, bucketCount, st, i) ==
    LET ev     == eva[i + 1]
        bucket == BitAnd(ev.hash, bucketCount - 1)
        index  == FindInBucket(eva, st.hashTable[bucket], ev)
    IN  IF index < 0
        THEN [ hashTable  |-> [st.hashTable EXCEPT ![bucket] = Append(@, i)],
               unifiedVA  |-> Append(st.unifiedVA, ev),
               indexTable |-> Append(st.indexTable, Len(st.unifiedVA)) ]
        ELSE [ st EXCEPT !.indexTable = Append(@, index) ]

\* on a miss the new slot is numbered after the vertex is appended
UnifyStepOffByOne(eva, bucketCount, st, i) ==
    LET ev     == eva[i + 1]
        bucket == BitAnd(ev.hash, bucketCount - 1)
        index  == FindInBucket(eva, st.hashTable[bucket], ev)
    IN  IF index < 0
        THEN [ hashTable  |-> [st.hashTable EXCEPT ![bucket] = Append(@, i)],
               unifiedVA  |-> Append(st.unifiedVA, ev),
               indexTable |-> Append(st.indexTable, Len(st.unifiedVA) + 1) ]
        ELSE [ st EXCEPT !.indexTable = Append(@, st.indexTable[index + 1]) ]

\* one iteration of the loop of unify_vertices over raw vertex i (0-based)
UnifyStep(eva, bucketCount, st, i) ==
    LET ev     == eva[i + 1]
        bucket == BitAnd(ev.hash, bucketCount - 1)
        index  == FindInBucket(eva, st.hashTable[bucket], ev)
    IN  IF index < 0
        THEN [ hashTable  |-> [st.hashTable EXCEPT ![bucket] = Append(@, i)],
               unifiedVA  |-> Append(st.unifiedVA, ev),
               indexTable |-> Append(st.indexTable, Len(st.unifiedVA)) ]
        ELSE [ st EXCEPT !.indexTable = Append(@, st.indexTable[index + 1]) ]

RECURSIVE UnifyLoop(_, _, _, _)
UnifyLoop(eva, bucketCount, st, i) ==
    IF i >= Len(eva) THEN st
    ELSE UnifyLoop(eva, bucketCount, UnifyStep(eva, bucketCount, st, i), i + 1)

\* unify_vertices: the unified vertex array and the index table it fills
unify_vertices(eva) ==
    LET bucketCount == BucketCount(Len(eva))
        st0 == [ hashTable  |-> [b \in 0 .. bucketCount - 1 |-> <<>>],
                 unifiedVA  |-> <<>>,
                 indexTable |-> <<>> ]
        st  == UnifyLoop(eva, bucketCount, st0, 0)
    IN  [ unifiedVA |-> st.unifiedVA, indexTable |-> st.indexTable,
          bucketCount |-> bucketCount ]

\* ------------------------------------------------------------------------
\* export_mesh_quality
\* ------------------------------------------------------------------------

\* get_export_uvs / get_export_vcols / get_export_tangents
get_export_uvs(m) == \E i \in DOMAIN m.materials : m.materials[i].export_uvs
get_export_vcols(m) == \E i \in DOMAIN m.materials : m.materials[i].export_vcols
get_export_tangents(m) == \E i \in DOMAIN m.materials : m.materials[i].export_tangents

\* write_va3d / write_va2d: the attribute of every vertex, concatenated
write_va(vertex_array, attrib) ==
    Flatten([k \in DOMAIN vertex_array |-> vertex_array[k][attrib]])

make_va(attrib, size, values) == [attrib |-> attrib, size |-> size, values |-> values]

write_triangle(triangle_index, index_table) ==
    LET i == triangle_index * 3
    IN  <<index_table[i + 1], index_table[i + 2], index_table[i + 3]>>

\* write_triangle_array: triangles 0 .. count-1 of the table
write_triangle_array(count, index_table) ==
    Flatten([t \in 1 .. count |-> write_triangle(t - 1, index_table)])

RECURSIVE SeqMax(_, _)
SeqMax(s, best) ==
    IF s = <<>> THEN best
    ELSE SeqMax(Tail(s), IF Head(s) > best THEN Head(s) ELSE best)

\* the 0-based positions of the entries of s equal to x, in order
RECURSIVE SelectIdx(_, _, _)
SelectIdx(s, x, i) ==
    IF i > Len(s) THEN <<>>
    ELSE (IF s[i] = x THEN <<i - 1>> ELSE <<>>) \o SelectIdx(s, x, i + 1)

\* index arrays written for every material index up to the largest one,
\* whether or not a triangle uses it
QualityIndexArraysAllSlots(material_table, indexTable) ==
    LET triangleCount    == Len(material_table)
        maxMaterialIndex == SeqMax(material_table, 0)
    IN  IF maxMaterialIndex = 0
        THEN << [size |-> 3, values |-> write_triangle_array(triangleCount, indexTable),
                 material |-> 0] >>
        ELSE [mm \in 1 .. maxMaterialIndex + 1 |->
                 LET m == mm - 1
                     tris == SelectIdx(material_table, m, 1)
                     materialIndexTable ==
                         Flatten([t \in DOMAIN tris |-> write_triangle(tris[t], indexTable)])
                 IN  [size |-> 3,
                      values |-> write_triangle_array(Len(tris), materialIndexTable),
                      material |-> m]]

\* "Write the index arrays" of export_mesh_quality
QualityIndexArrays(material_table, indexTable) ==
    LET triangleCount    == Len(material_table)
        maxMaterialIndex == SeqMax(material_table, 0)
    IN  IF maxMaterialIndex = 0
        THEN << [size |-> 3, values |-> write_triangle_array(triangleCount, indexTable),
                 material |-> 0] >>
        ELSE Flatten([mm \in 1 .. maxMaterialIndex + 1 |->
                 LET m == mm - 1
                     tris == SelectIdx(material_table, m, 1)
                     materialIndexTable ==
                         Flatten([t \in DOMAIN tris |-> write_triangle(tris[t], indexTable)])
                 IN  IF Len(tris) # 0
                     THEN << [size |-> 3,
                              values |-> write_triangle_array(Len(tris), materialIndexTable),
                              material |-> m] >>
                     ELSE <<>>])

\* ------------------------------------------------------------------------
\* Tangents
\* ------------------------------------------------------------------------

\* has_tangents
has_tangents(m) == get_export_uvs(m) /\ get_export_tangents(m) /\ m.texcoordCount > 0

VecSub(a, b) == [i \in DOMAIN a |-> a[i] - b[i]]
VecScale(a, k) == [i \in DOMAIN a |-> a[i] * k]
Dot(a, b) == a[1] * b[1] + a[2] * b[2] + a[3] * b[3]
Abs(x) == IF x < 0 THEN 0 - x ELSE x

\* x * (1.0 / d).  The texture coordinates of the modelled meshes are corners
\* of the unit square, so d is -1 or 1 when it is not 0 and the quotient is exact.
TimesInverse(x, d) == IF d > 0 THEN x \div d ELSE (0 - x) \div (0 - d)

\* calc_tangent
calc_tangent(v0, v1, v2, uv0, uv1, uv2) ==
    LET deltaPos1 == VecSub(v1, v0)
        deltaPos2 == VecSub(v2, v0)
        deltaUV1  == VecSub(uv1, uv0)
        deltaUV2  == VecSub(uv2, uv0)
        d         == deltaUV1[1] * deltaUV2[2] - deltaUV1[2] * deltaUV2[1]
        scaled    == VecSub(VecScale(deltaPos1, deltaUV2[2]), VecScale(deltaPos2, deltaUV1[2]))
    IN  IF d # 0 THEN [i \in DOMAIN scaled |-> TimesInverse(scaled[i], d)] ELSE scaled

RECURSIVE AccumulateTangents(_, _, _, _, _)
\* the first loop of calc_tangents, from triangle i on: the tangent of every
\* triangle of ia is added to the entries of its three vertices
AccumulateTangents(posa, uva, ia, i, tangents) ==
    IF i >= Len(ia) \div 3 THEN tangents
    ELSE LET i0  == ia[i * 3 + 1]
             i1  == ia[i * 3 + 2]
             i2  == ia[i * 3 + 3]
             v0  == <<posa[i0 * 3 + 1], posa[i0 * 3 + 2], posa[i0 * 3 + 3]>>
             v1  == <<posa[i1 * 3 + 1], posa[i1 * 3 + 2], posa[i1 * 3 + 3]>>
             v2  == <<posa[i2 * 3 + 1], posa[i2 * 3 + 2], posa[i2 * 3 + 3]>>
             uv0 == <<uva[i0 * 2 + 1], uva[i0 * 2 + 2]>>
             uv1 == <<uva[i1 * 2 + 1], uva[i1 * 2 + 2]>>
             uv2 == <<uva[i2 * 2 + 1], uva[i2 * 2 + 2]>>
             tangent == calc_tangent(v0, v1, v2, uv0, uv1, uv2)
         IN  AccumulateTangents(posa, uva, ia, i + 1,
                 [tangents EXCEPT ![i0 * 3 + 1] = @ + tangent[1],
                                  ![i0 * 3 + 2] = @ + tangent[2],
                                  ![i0 * 3 + 3] = @ + tangent[3],
                                  ![i1 * 3 + 1] = @ + tangent[1],
                                  ![i1 * 3 + 2] = @ + tangent[2],
                                  ![i1 * 3 + 3] = @ + tangent[3],
                                  ![i2 * 3 + 1] = @ + tangent[1],
                                  ![i2 * 3 + 2] = @ + tangent[2],
                                  ![i2 * 3 + 3] = @ + tangent[3]])

\* Vector.normalize: a unit vector is kept as the shortest integer vector of
\* its direction; the zero vector stays zero
Normalized(v) ==
    LET g == GCD(GCD(Abs(v[1]), Abs(v[2])), Abs(v[3]))
    IN  IF g = 0 THEN v ELSE [i \in DOMAIN v |-> TimesInverse(v[i], g)]

\* "Orthogonalize": the second loop of calc_tangents
Orthogonalize(nora, tangents) ==
    Flatten([k \in 1 .. Len(tangents) \div 3 |->
        LET i == k - 1
            t == <<tangents[i * 3 + 1], tangents[i * 3 + 2], tangents[i * 3 + 3]>>
            n == <<nora[i * 3 + 1], nora[i * 3 + 2], nora[i * 3 + 3]>>
        IN  Normalized(VecSub(t, VecScale(n, Dot(n, t))))])

\* calc_tangents
calc_tangents(posa, nora, uva, ia) ==
    LET vertex_count == Len(posa) \div 3
    IN  Orthogonalize(nora,
            AccumulateTangents(posa, uva, ia, 0, [j \in 1 .. vertex_count * 3 |-> 0]))

\* "Export tangents" / "Make tangents": the tangent array of a mesh that has
\* tangents, computed from the first index array
export_tangents(m, pa, na, ta, index_arrays) ==
    IF has_tangents(m)
    THEN << make_va("tang", 3,
                calc_tangents(pa.values, na.values, ta[1].values, index_arrays[1].values)) >>
    ELSE <<>>

export_mesh_quality(m) ==
    LET d  == deindex_mesh(m)
        u  == unify_vertices(d.export_vertex_array)
        pa == make_va("pos", 3, write_va(u.unifiedVA, "position"))
        na == make_va("nor", 3, write_va(u.unifiedVA, "normal"))
        ca == IF get_export_vcols(m) /\ m.color_count > 0
              THEN << make_va("col", 3, write_va(u.unifiedVA, "color")) >> ELSE <<>>
        ta == IF get_export_uvs(m) /\ m.texcoordCount > 0
              THEN << make_va("tex", 2, write_va(u.unifiedVA, "texcoord0")) >>
                   \o (IF m.texcoordCount > 1
                       THEN << make_va("tex1", 2, write_va(u.unifiedVA, "texcoord1")) >>
                       ELSE <<>>)
              ELSE <<>>
        index_arrays == QualityIndexArrays(d.material_table, u.indexTable)
    IN  [ export_vertex_array |-> d.export_vertex_array,
          material_table |-> d.material_table,
          bucketCount    |-> u.bucketCount,
          unifiedVA      |-> u.unifiedVA,
          indexTable     |-> u.indexTable,
          vertex_arrays  |-> <<pa, na>> \o ca \o ta
                                \o export_tangents(m, pa, na, ta, index_arrays),
          index_arrays   |-> index_arrays ]

\* ------------------------------------------------------------------------
\* export_mesh_fast
\* ------------------------------------------------------------------------

\* exportMesh.loops with the per-loop data of the UV and colour layers
MeshLoops(m) ==
    Flatten([f \in DOMAIN m.faces |->
        LET face == m.faces[f]
        IN  [c \in DOMAIN face.vertices |->
                [ vertex_index |-> face.vertices[c],
                  normal |-> IF face.use_smooth
                             THEN m.vertices[face.vertices[c] + 1].normal ELSE face.normal,
                  uv     |-> face.uv[c],
                  uv1    |-> face.uv1[c],
                  color  |-> face.color[c] ]]])

RECURSIVE LoopStart(_, _)
\* poly.loop_start of polygon f (1-based f, 0-based result)
LoopStart(m, f) ==
    IF f = 1 THEN 0 ELSE LoopStart(m, f - 1) + Len(m.faces[f - 1].vertices)

\* Vertex.__init__ for the loop with index i
Vertex(m, loop, i) ==
    [ vertex_index |-> loop.vertex_index,
      co           |-> m.vertices[loop.vertex_index + 1].co,
      normal       |-> loop.normal,
      uvs          |-> (CASE m.texcoordCount = 0 -> <<>>
                          [] m.texcoordCount = 1 -> <<loop.uv>>
                          [] OTHER -> <<loop.uv, loop.uv1>>),
      col          |-> IF m.color_count > 0 THEN loop.color ELSE <<0, 0, 0>>,
      loop_indices |-> <<i>>,
      index        |-> 0 ]

\* Vertex.__hash__: the hashed tuple stands for its hash value
VertexHash(v) == <<v.co, v.normal, v.uvs>>

\* Vertex.__eq__ (its result; the merge of loop_indices is in DictInsert)
VertexEq(a, b) == (a.co = b.co) /\ (a.normal = b.normal) /\ (a.uvs = b.uvs)

\* inserting key v into the dict { Vertex(exportMesh, loop) : 0 ... }: an equal
\* key is kept and takes over the loop indices of v
DictInsert(keys, v) ==
    IF \E k \in DOMAIN keys : VertexHash(keys[k]) = VertexHash(v) /\ VertexEq(keys[k], v)
    THEN LET k == CHOOSE j \in DOMAIN keys :
                      VertexHash(keys[j]) = VertexHash(v) /\ VertexEq(keys[j], v)
         IN  [keys EXCEPT ![k].loop_indices = @ \o v.loop_indices]
    ELSE Append(keys, v)

RECURSIVE VertDictKeys(_, _, _, _)
VertDictKeys(m, loops, i, keys) ==
    IF i >= Len(loops) THEN keys
    ELSE VertDictKeys(m, loops, i + 1, DictInsert(keys, Vertex(m, loops[i + 1], i)))

\* a fan around the first corner instead of the last
PolyTrianglesFirstFan(indices) ==
    IF Len(indices) = 3 THEN indices
    ELSE IF Len(indices) > 3
    THEN Flatten([i \in 1 .. Len(indices) - 2 |->
                     <<indices[1], indices[i + 1], indices[i + 2]>>])
    ELSE <<>>

\* a polygon's triangles: itself, or the fan (last, i, i+1)
PolyTriangles(indices) ==
    IF Len(indices) = 3 THEN indices
    ELSE IF Len(indices) > 3
    THEN Flatten([i \in 1 .. Len(indices) - 2 |->
                     <<indices[Len(indices)], indices[i], indices[i + 1]>>])
    ELSE <<>>

RECURSIVE Distinct(_, _)
\* the keys of a dict built from the entries of s, in insertion order
Distinct(s, seen) ==
    IF s = <<>> THEN seen
    ELSE Distinct(Tail(s), IF Head(s) \in Range(seen) THEN seen ELSE Append(seen, Head(s)))

\* the first i (0-based) with materials[i].name = mat
RECURSIVE FirstSlotNamed(_, _, _)
FirstSlotNamed(mats, mat, i) ==
    IF i > Len(mats) THEN 0
    ELSE IF mats[i].name = mat THEN i - 1
    ELSE FirstSlotNamed(mats, mat, i + 1)

export_mesh_fast(m) ==
    LET loops     == MeshLoops(m)
        keys      == VertDictKeys(m, loops, 0, <<>>)
        vert_list == [i \in DOMAIN keys |-> [keys[i] EXCEPT !.index = i - 1]]
        num_verts == Len(vert_list)
        has_tex   == get_export_uvs(m) /\ m.texcoordCount > 0
        has_tex1  == has_tex /\ m.texcoordCount > 1
        has_col   == get_export_vcols(m) /\ m.color_count > 0
        \* vert_dict[i].index for every loop index i
        vert_dict == [i \in DOMAIN loops |->
                         LET owners == { k \in DOMAIN vert_list :
                                             (i - 1) \in Range(vert_list[k].loop_indices) }
                             k == CHOOSE x \in owners : \A y \in owners : y <= x
                         IN  vert_list[k].index]
        pa == make_va("pos", 3, write_va(vert_list, "co"))
        na == make_va("nor", 3, write_va(vert_list, "normal"))
        ta == IF has_tex
              THEN << make_va("tex", 2,
                        Flatten([k \in DOMAIN vert_list |->
                           <<vert_list[k].uvs[1][1], 1 - vert_list[k].uvs[1][2]>>])) >>
                   \o (IF has_tex1
                       THEN << make_va("tex1", 2,
                                Flatten([k \in DOMAIN vert_list |->
                                   <<vert_list[k].uvs[2][1], 1 - vert_list[k].uvs[2][2]>>])) >>
                       ELSE <<>>)
              ELSE <<>>
        ca == IF has_col THEN << make_va("col", 3, write_va(vert_list, "col")) >> ELSE <<>>
        names == IF Len(m.materials) = 0 THEN << "" >>
                 ELSE Distinct([i \in DOMAIN m.materials |-> m.materials[i].name], <<>>)
        PolyMat(f) == IF Len(m.materials) = 0 THEN ""
                      ELSE LET mi == m.faces[f].material_index
                               top == Len(m.materials) - 1
                           IN  m.materials[(IF mi < top THEN mi ELSE top) + 1].name
        PolyIndices(f) == [c \in DOMAIN m.faces[f].vertices |->
                              vert_dict[LoopStart(m, f) + c]]
        Prim(mat) == Flatten([f \in DOMAIN m.faces |->
                         IF PolyMat(f) = mat THEN PolyTriangles(PolyIndices(f)) ELSE <<>>])
        index_arrays == [p \in DOMAIN names |->
                            [ size |-> 3, values |-> Prim(names[p]),
                              material |-> IF Len(m.materials) > 1
                                           THEN FirstSlotNamed(m.materials, names[p], 1)
                                           ELSE 0 ]]
    IN  [ vert_list     |-> vert_list,
          vert_dict     |-> vert_dict,
          vertex_arrays |-> <<pa, na>> \o ta \o ca
                                \o export_tangents(m, pa, na, ta, index_arrays),
          index_arrays  |-> index_arrays ]

\* ------------------------------------------------------------------------
\* Mesh specification: a mesh is exported by either path
\* ------------------------------------------------------------------------

ExportMeshQuality ==
    /\ quality' = export_mesh_quality(mesh)
    /\ UNCHANGED <<mesh, fast, skinVars, execVars, animVars, walkVars>>

ExportMeshFast ==
    /\ fast' = export_mesh_fast(mesh)
    /\ UNCHANGED <<mesh, quality, skinVars, execVars, animVars, walkVars>>

\* values of the state groups a specification does not use
IdleMesh == mesh = NotRun /\ quality = NotRun /\ fast = NotRun
IdleSkin == skin_in = NotRun /\ skin_out = NotRun
IdleExec ==
    /\ data = <<>> /\ files = {} /\ host = <<>> /\ morph = <<>> /\ materials = <<>>
    /\ shader = <<>> /\ scene = <<>> /\ pc = "idle" /\ run = <<>>
IdleAnim == fcurve = NotRun /\ curve_out = NotRun /\ anim_in = NotRun /\ anim_out = NotRun
IdleWalk == tree = NotRun /\ doc = NotRun

InitMesh ==
    /\ mesh \in MeshInputs
    /\ quality = NotRun
    /\ fast = NotRun
    /\ IdleSkin
    /\ IdleExec
    /\ IdleAnim
    /\ IdleWalk

NextMesh == ExportMeshQuality \/ ExportMeshFast

SpecMesh == InitMesh /\ [][NextMesh]_vars

\* ------------------------------------------------------------------------
\* Claims about welding
\* ------------------------------------------------------------------------

\* the attributes of a raw vertex that welding compares
SameAttributes(a, b) ==
    /\ a.position = b.position
    /\ a.normal = b.normal
    /\ a.texcoord0 = b.texcoord0
    /\ a.texcoord1 = b.texcoord1
    /\ a.color = b.color

\* the attributes of a face corner (loop) of the fast path
SameLoopAttributes(m, la, lb) ==
    LET a == Vertex(m, la, 0)
        b == Vertex(m, lb, 0)
    IN  a.co = b.co /\ a.normal = b.normal /\ a.uvs = b.uvs /\ a.col = b.col

\* the quality path welds two raw vertices iff all compared attributes are equal
QualityWeldsIffEqual ==
    quality # NotRun =>
        \A i, j \in DOMAIN quality.export_vertex_array :
            (quality.indexTable[i] = quality.indexTable[j])
                <=> SameAttributes(quality.export_vertex_array[i],
                                   quality.export_vertex_array[j])

\* the fast path welds two loops iff position, normal, UVs and colour are equal
FastWeldsIffEqual ==
    fast # NotRun =>
        \A i, j \in DOMAIN MeshLoops(mesh) :
            (fast.vert_dict[i] = fast.vert_dict[j])
                <=> SameLoopAttributes(mesh, MeshLoops(mesh)[i], MeshLoops(mesh)[j])

\* C1: in both mesh paths two face corners are mapped to the same welded
\* vertex if and only if their position, normal, all UVs and colour are
\* equal; corners differing in one attribute (e.g. colour) are never merged.
C1_WeldIffAllAttributesEqual == QualityWeldsIffEqual /\ FastWeldsIffEqual

\* values of one index array are valid slots of n welded vertices, in triples
ValidIndexArray(values, n) ==
    /\ Len(values) % 3 = 0
    /\ \A k \in DOMAIN values : 0 <= values[k] /\ values[k] < n

\* C2: in both mesh paths every value written to an index array is a valid
\* index into the emitted welded-vertex sequence, and the length of the index
\* table and of every emitted index array is a multiple of 3.
C2_IndexValidity ==
    /\ quality # NotRun =>
          /\ ValidIndexArray(quality.indexTable, Len(quality.unifiedVA))
          /\ \A a \in DOMAIN quality.index_arrays :
                ValidIndexArray(quality.index_arrays[a].values, Len(quality.unifiedVA))
    /\ fast # NotRun =>
          /\ \A a \in DOMAIN fast.index_arrays :
                ValidIndexArray(fast.index_arrays[a].values, Len(fast.vert_list))

\* both paths have run on a mesh with several materials whose corners weld
C2_Witness ==
    /\ quality # NotRun /\ fast # NotRun
    /\ Len(quality.index_arrays) > 1
    /\ Len(quality.unifiedVA) < Len(quality.export_vertex_array)
    /\ Len(fast.vert_list) < Len(MeshLoops(mesh))
    /\ \E a \in DOMAIN fast.index_arrays : Len(fast.index_arrays[a].values) > 3

\* raw positions whose attributes occur for the first time
FirstOccurrences(raw) ==
    { i \in DOMAIN raw : \A j \in 1 .. i - 1 : ~SameAttributes(raw[j], raw[i]) }

\* C3: unify_vertices emits the welded vertices in first-occurrence order,
\* appends exactly one index-table entry per raw vertex, and the entry of raw
\* vertex i designates a welded vertex with the attributes of raw vertex i,
\* for every bucket count and whatever hash collisions occur.
C3_UnifyFirstOccurrence ==
    quality # NotRun =>
        LET raw   == quality.export_vertex_array
            first == FirstOccurrences(raw)
        IN  /\ Len(quality.indexTable) = Len(raw)
            /\ Len(quality.unifiedVA) = Cardinality(first)
            /\ \A i \in first :
                  /\ quality.indexTable[i] = Cardinality({ j \in first : j < i })
                  /\ quality.unifiedVA[quality.indexTable[i] + 1] = raw[i]
            /\ \A i \in DOMAIN raw :
                  /\ quality.indexTable[i] + 1 \in DOMAIN quality.unifiedVA
                  /\ SameAttributes(quality.unifiedVA[quality.indexTable[i] + 1], raw[i])

\* several buckets, unequal vertices colliding in one bucket, and a weld
C3_Witness ==
    /\ quality # NotRun
    /\ quality.bucketCount > 1
    /\ Len(quality.unifiedVA) < Len(quality.export_vertex_array)
    /\ \E i, j \in DOMAIN quality.export_vertex_array :
          /\ i < j
          /\ ~SameAttributes(quality.export_vertex_array[i], quality.export_vertex_array[j])
          /\ BitAnd(quality.export_vertex_array[i].hash, quality.bucketCount - 1)
               = BitAnd(quality.export_vertex_array[j].hash, quality.bucketCount - 1)
    /\ \E i, j \in DOMAIN quality.export_vertex_array :
          /\ BitAnd(quality.export_vertex_array[i].hash, quality.bucketCount - 1)
               # BitAnd(quality.export_vertex_array[j].hash, quality.bucketCount - 1)

\* ------------------------------------------------------------------------
\* export_skin_quality: per-vertex bone influence data
\* ------------------------------------------------------------------------

\* Bounds of the skin model
MaxGroups == 5
MaxSkinVerts == 2

\* exact rationals <<numerator, denominator>> stand for the float weights

RNorm(n, d) == IF n = 0 THEN <<0, 1>> ELSE <<n \div GCD(n, d), d \div GCD(n, d)>>
RAdd(a, b) == RNorm(a[1] * b[2] + b[1] * a[2], a[2] * b[2])
RMul(a, b) == RNorm(a[1] * b[1], a[2] * b[2])
RInv(a) == RNorm(a[2], a[1])
RLess(a, b) == a[1] * b[2] < b[1] * a[2]
RZero == <<0, 1>>
ROne == <<1, 1>>

RECURSIVE RSum(_)
RSum(ws) == IF ws = <<>> THEN RZero ELSE RAdd(Head(ws), RSum(Tail(ws)))

\* group weights 0.0, 0.25 and 0.5
WeightValues == { <<0, 1>>, <<1, 4>>, <<1, 2>> }

\* a vertex's groups: element j is in vertex group j-1
GroupLists(ws) == { [j \in DOMAIN w |-> [group |-> j - 1, weight |-> w[j]]] : w \in ws }

RichGroupLists == GroupLists(SeqsUpTo(WeightValues, MaxGroups))
ShortGroupLists == GroupLists({ <<>>, << <<1, 4>> >>, << <<1, 2>>, <<1, 4>> >> })

\* mesh vertices: vertices with short group lists, then one with any group list
SkinVertexTables ==
    UNION { { [k \in 1 .. n |-> IF k = n THEN rich ELSE short[k]] :
                 rich \in RichGroupLists, short \in [1 .. n -> ShortGroupLists] } :
            n \in 1 .. MaxSkinVerts }

\* names of the vertex groups of the object, and the bone arrays of the armature
GroupNames == [g \in 1 .. MaxGroups |-> g - 1]
BoneArrays == { GroupNames, Tail(GroupNames) }

SkinInputs ==
    { [ groups |-> vt, vertex_groups |-> GroupNames, bone_array |-> ba,
        export_vertex_array |-> [k \in DOMAIN vt |-> [vertex_index |-> k - 1]] ] :
        vt \in { t \in SkinVertexTables : t # <<>> }, ba \in BoneArrays }

RECURSIVE FirstBoneNamed(_, _, _)
\* the inner loop over bone_array with its for/else
FirstBoneNamed(bone_array, group_name, i) ==
    IF i > Len(bone_array) THEN -1
    ELSE IF bone_array[i] = group_name THEN i - 1
    ELSE FirstBoneNamed(bone_array, group_name, i + 1)

\* group_remap: vertex group -> bone index, or -1
GroupRemap(vertex_groups, bone_array) ==
    [g \in DOMAIN vertex_groups |-> FirstBoneNamed(bone_array, vertex_groups[g], 1)]

RECURSIVE BoneValues(_, _)
\* (bone_weight, bone_index) of the contributing groups of a vertex, in list order
BoneValues(elements, group_remap) ==
    IF elements = <<>> THEN <<>>
    ELSE LET element     == Head(elements)
             bone_index  == group_remap[element.group + 1]
             bone_weight == element.weight
         IN  (IF bone_index >= 0 /\ bone_weight # RZero
              THEN << [weight |-> bone_weight, index |-> bone_index] >> ELSE <<>>)
             \o BoneValues(Tail(elements), group_remap)

\* tuple order of (weight, index)
BoneValueLess(a, b) ==
    RLess(a.weight, b.weight) \/ (a.weight = b.weight /\ a.index < b.index)

RECURSIVE InsertDescending(_, _)
InsertDescending(sorted, x) ==
    IF sorted = <<>> THEN <<x>>
    ELSE IF BoneValueLess(Head(sorted), x) THEN <<x>> \o sorted
    ELSE <<Head(sorted)>> \o InsertDescending(Tail(sorted), x)

RECURSIVE ReversedSorted(_)
\* reversed(sorted(bone_values))
ReversedSorted(bvs) ==
    IF bvs = <<>> THEN <<>>
    ELSE InsertDescending(ReversedSorted(Tail(bvs)), Head(bvs))

\* Python's list[-i]: list[0] for i = 0, else the i-th entry from the end
NegIndex(arr, i) == IF i = 0 THEN 1 ELSE Len(arr) - i + 1

RECURSIVE Normalize(_, _, _, _)
\* for i in range(0, bone_count): bone_weight_array[-i] *= normalizer
Normalize(arr, normalizer, i, bone_count) ==
    IF i >= bone_count THEN arr
    ELSE Normalize([arr EXCEPT ![NegIndex(arr, i)] = RMul(@, normalizer)],
                   normalizer, i + 1, bone_count)

\* a loop body that caps bone_count at 4 but appends every contributing
\* influence to the index and weight arrays
SkinVertexStepUncut(in, st, ev) ==
    LET group_remap  == GroupRemap(in.vertex_groups, in.bone_array)
        all_values   == BoneValues(in.groups[ev.vertex_index + 1], group_remap)
        total_weight == RSum([k \in DOMAIN all_values |-> all_values[k].weight])
        clamp        == Len(all_values) > 4
        bone_count   == IF clamp THEN 4 ELSE Len(all_values)
        ordered      == ReversedSorted(all_values)
        indices      == st.bone_index_array \o [k \in DOMAIN ordered |-> ordered[k].index]
        weights      == st.bone_weight_array \o [k \in DOMAIN ordered |-> ordered[k].weight]
    IN  [ bone_count_array  |-> Append(st.bone_count_array, bone_count),
          bone_index_array  |-> indices,
          bone_weight_array |-> IF total_weight # RZero
                                THEN Normalize(weights, RInv(total_weight), 0, bone_count)
                                ELSE weights,
          warn_bones        |-> (st.warn_bones \/ clamp) ]

\* the body of "for ev in export_vertex_array" for one vertex
SkinVertexStep(in, st, ev) ==
    LET group_remap  == GroupRemap(in.vertex_groups, in.bone_array)
        all_values   == BoneValues(in.groups[ev.vertex_index + 1], group_remap)
        total_weight == RSum([k \in DOMAIN all_values |-> all_values[k].weight])
        clamp        == Len(all_values) > 4
        bone_count   == IF clamp THEN 4 ELSE Len(all_values)
        bone_values  == IF clamp THEN SubSeq(all_values, 1, 4) ELSE all_values
        ordered      == ReversedSorted(bone_values)
        indices      == st.bone_index_array \o [k \in DOMAIN ordered |-> ordered[k].index]
        weights      == st.bone_weight_array \o [k \in DOMAIN ordered |-> ordered[k].weight]
    IN  [ bone_count_array  |-> Append(st.bone_count_array, bone_count),
          bone_index_array  |-> indices,
          bone_weight_array |-> IF total_weight # RZero
                                THEN Normalize(weights, RInv(total_weight), 0, bone_count)
                                ELSE weights,
          warn_bones        |-> (st.warn_bones \/ clamp) ]

RECURSIVE SkinLoop(_, _, _)
SkinLoop(in, st, k) ==
    IF k > Len(in.export_vertex_array) THEN st
    ELSE SkinLoop(in, SkinVertexStep(in, st, in.export_vertex_array[k]), k + 1)

\* export_skin_quality: the three per-vertex arrays (and the warning flag)
export_skin_quality(in) ==
    SkinLoop(in, [ bone_count_array |-> <<>>, bone_index_array |-> <<>>,
                   bone_weight_array |-> <<>>, warn_bones |-> FALSE ], 1)

ExportSkinQuality ==
    /\ skin_out' = export_skin_quality(skin_in)
    /\ UNCHANGED <<skin_in, meshVars, execVars, animVars, walkVars>>

InitSkin ==
    /\ skin_in \in SkinInputs
    /\ skin_out = NotRun
    /\ IdleMesh
    /\ IdleExec
    /\ IdleAnim
    /\ IdleWalk

NextSkin == ExportSkinQuality

SpecSkin == InitSkin /\ [][NextSkin]_vars

\* ------------------------------------------------------------------------
\* Claims about skin packing
\* ------------------------------------------------------------------------

\* start (exclusive) of the slice of welded vertex k in the flattened arrays
RECURSIVE SliceStart(_, _)
SliceStart(counts, k) == IF k = 1 THEN 0 ELSE SliceStart(counts, k - 1) + counts[k - 1]

\* positions of welded vertex k in bone_index_array / bone_weight_array
Slice(out, k) ==
    SliceStart(out.bone_count_array, k) + 1 ..
        SliceStart(out.bone_count_array, k) + out.bone_count_array[k]

\* the contributing (weight, bone) pairs of welded vertex k, before the clamp
Contributing(in, k) ==
    BoneValues(in.groups[in.export_vertex_array[k].vertex_index + 1],
               GroupRemap(in.vertex_groups, in.bone_array))

RECURSIVE RSumOver(_, _)
RSumOver(arr, idx) ==
    IF idx = {} THEN RZero
    ELSE LET p == CHOOSE x \in idx : TRUE
         IN  RAdd(arr[p], RSumOver(arr, idx \ {p}))

\* C4: for every packed vertex with at least one influence the emitted
\* weights sum to 1.0 and its bone count is at most 4.
C4_WeightsSumToOne ==
    skin_out # NotRun =>
        \A k \in DOMAIN skin_out.bone_count_array :
            Len(Contributing(skin_in, k)) >= 1 =>
                /\ skin_out.bone_count_array[k] <= 4
                /\ RSumOver(skin_out.bone_weight_array, Slice(skin_out, k)) = ROne

\* C5: for a vertex with more than 4 contributing bones exactly 4 entries are
\* emitted and they are the 4 entries with the highest weights, whatever the
\* order in which the vertex lists its groups.
C5_FourHighestRetained ==
    skin_out # NotRun =>
        \A k \in DOMAIN skin_out.bone_count_array :
            LET all == Contributing(skin_in, k)
                kept == { skin_out.bone_index_array[p] : p \in Slice(skin_out, k) }
            IN  Len(all) > 4 =>
                  /\ skin_out.bone_count_array[k] = 4
                  /\ Cardinality(kept) = 4
                  /\ \A a, b \in DOMAIN all :
                        (all[a].index \in kept /\ all[b].index \notin kept)
                            => ~RLess(all[a].weight, all[b].weight)

\* C6: every emitted weight equals the entry's original group weight divided
\* by the vertex's pre-clamp total weight, for every retained weight.
C6_DividedByPreClampTotal ==
    skin_out # NotRun =>
        \A k \in DOMAIN skin_out.bone_count_array :
            LET all   == Contributing(skin_in, k)
                total == RSum([a \in DOMAIN all |-> all[a].weight])
            IN  \A p \in Slice(skin_out, k) :
                  \E a \in DOMAIN all :
                     /\ all[a].index = skin_out.bone_index_array[p]
                     /\ skin_out.bone_weight_array[p] = RMul(all[a].weight, RInv(total))

\* ------------------------------------------------------------------------
\* Incremental export cache (do_export_mesh, write_mesh)
\* ------------------------------------------------------------------------

\* largest vertex count the editing environment gives a mesh data-block
MaxVerts == 2

MeshDataNames == { "CubeMesh", "TextCurve", "BlobMeta" }
DataNames == MeshDataNames \cup { "RigData" }

\* bobject.type of the objects that use a data-block
DataType(d) ==
    CASE d = "CubeMesh" -> "MESH"
      [] d = "TextCurve" -> "FONT"
      [] d = "BlobMeta" -> "META"
      [] OTHER -> "ARMATURE"

\* the data-blocks of a scene that was never exported
InitData ==
    [ d \in DataNames |->
        IF DataType(d) = "ARMATURE"
        THEN [ type |-> "ARMATURE", data_cached |-> FALSE ]
        ELSE [ type              |-> DataType(d),
               vertices          |-> IF DataType(d) = "MESH" THEN 1 ELSE 0,
               edges             |-> 0,
               mesh_cached       |-> FALSE,
               mesh_cached_verts |-> 0,
               mesh_cached_edges |-> 0 ] ]

\* preprocess sets the class attribute before every export_objects
option_mesh_per_file == TRUE

\* object_is_mesh_cached without the edge-count comparison
object_is_mesh_cached_NoEdges(bdata) ==
    IF bdata.type = "FONT" \/ bdata.type = "META" THEN bdata.mesh_cached
    ELSE IF bdata.mesh_cached_verts # bdata.vertices THEN FALSE
    ELSE bdata.mesh_cached

object_is_mesh_cached(bdata) ==
    IF bdata.type = "FONT" \/ bdata.type = "META" THEN bdata.mesh_cached
    ELSE IF bdata.mesh_cached_verts # bdata.vertices THEN FALSE
    ELSE IF bdata.mesh_cached_edges # bdata.edges THEN FALSE
    ELSE bdata.mesh_cached

\* path of the companion document of an asset: <<kind, id>> stands for
\* meshes/<kind>_<id>.arm (no data-block of the model is compressed)
get_meshes_file_path(kind, oid) == <<kind, oid>>

\* write_mesh that validates the entry and writes no artifact
write_mesh_NoFile(bdata, fp, fs) ==
    [ bdata |-> IF bdata.type # "FONT" /\ bdata.type # "META"
                THEN [bdata EXCEPT !.mesh_cached = TRUE,
                                   !.mesh_cached_verts = bdata.vertices,
                                   !.mesh_cached_edges = bdata.edges]
                ELSE [bdata EXCEPT !.mesh_cached = TRUE],
      files |-> fs ]

\* write_mesh without the update of the cached counts
write_mesh_NoCounts(bdata, fp, fs) ==
    [ bdata |-> [bdata EXCEPT !.mesh_cached = TRUE], files |-> fs \cup { fp } ]

\* write_mesh in per-file mode: the artifact is written, the entry validated
write_mesh(bdata, fp, fs) ==
    [ bdata |-> IF bdata.type # "FONT" /\ bdata.type # "META"
                THEN [bdata EXCEPT !.mesh_cached = TRUE,
                                   !.mesh_cached_verts = bdata.vertices,
                                   !.mesh_cached_edges = bdata.edges]
                ELSE [bdata EXCEPT !.mesh_cached = TRUE],
      files |-> fs \cup { fp } ]

\* the object of a mesh data-block without shape keys
NoShapeKeys ==
    [ active_shape_key_index |-> 0, show_only_shape_key |-> FALSE, key_blocks |-> << >> ]

\* a cube with two shape keys, the second one shown (block values 0.0 and 1.0)
KeyedCube ==
    [ active_shape_key_index |-> 1, show_only_shape_key |-> FALSE, key_blocks |-> << 0, 1 >> ]

\* get_shape_keys: a mesh has shape keys when it has more than one key block
get_shape_keys(bobject) == Len(bobject.key_blocks) > 1

\* "Save the morph state if necessary": the base key alone is shown while
\* the mesh is built
SwitchToBaseKey(bobject) ==
    IF get_shape_keys(bobject)
    THEN [ active_shape_key_index |-> 0,
           show_only_shape_key    |-> TRUE,
           key_blocks |-> [ m \in DOMAIN bobject.key_blocks |-> IF m = 1 THEN 1 ELSE 0 ] ]
    ELSE bobject

\* "Restore the morph state"
RestoreMorphState(bobject, activeShapeKeyIndex, showOnlyShapeKey, currentMorphValue) ==
    IF get_shape_keys(bobject)
    THEN [ active_shape_key_index |-> activeShapeKeyIndex,
           show_only_shape_key    |-> showOnlyShapeKey,
           key_blocks |-> [ m \in DOMAIN bobject.key_blocks |->
                              IF m <= Len(currentMorphValue) THEN currentMorphValue[m]
                              ELSE bobject.key_blocks[m] ] ]
    ELSE bobject

\* do_export_mesh on the mesh data-block d: the new data-blocks, files and
\* shape-key states and a record of the call (what the cache check saw, how
\* the call ended).  Without the per-file option the path fp is never bound,
\* and the call raises UnboundLocalError where it hands fp to the mesh export.
do_export_mesh(per_file, d, dt, fs, yields, sh) ==
    LET bdata  == dt[d]
        fp     == get_meshes_file_path("mesh", d)
        cached == object_is_mesh_cached(bdata)
        exists == fp \in fs
        call   == [ data |-> d, before |-> bdata, cached |-> cached,
                    exists |-> exists, yields |-> yields[d], morph_before |-> sh[d] ]
        activeShapeKeyIndex == sh[d].active_shape_key_index
        showOnlyShapeKey    == sh[d].show_only_shape_key
        currentMorphValue   == IF get_shape_keys(sh[d]) THEN sh[d].key_blocks ELSE << >>
        switched == SwitchToBaseKey(sh[d])
    IN  IF per_file /\ cached = TRUE /\ exists
        THEN [ data |-> dt, files |-> fs, morph |-> sh,
               call |-> [ outcome |-> "skipped" ] @@ call ]
        ELSE IF ~yields[d]
        THEN [ data |-> dt, files |-> fs, morph |-> [sh EXCEPT ![d] = switched],
               call |-> [ outcome |-> "warned" ] @@ call ]
        ELSE IF ~per_file
        THEN [ data |-> dt, files |-> fs, morph |-> [sh EXCEPT ![d] = switched],
               call |-> [ outcome |-> "raised" ] @@ call ]
        ELSE LET w == write_mesh(bdata, fp, fs)
             IN  [ data |-> [dt EXCEPT ![d] = w.bdata], files |-> w.files,
                   morph |-> [sh EXCEPT ![d] = RestoreMorphState(switched,
                                 activeShapeKeyIndex, showOnlyShapeKey, currentMorphValue)],
                   call |-> [ outcome |-> "written" ] @@ call ]

\* self.meshArray of a scene that uses every mesh data-block, in scene order
MeshArray == << "CubeMesh", "TextCurve", "BlobMeta" >>

RECURSIVE MeshLoopStopOnWarning(_, _, _, _, _)
\* a mesh loop that gives up at the first mesh the host yields nothing for
MeshLoopStopOnWarning(per_file, meshArray, yields, k, st) ==
    IF k > Len(meshArray) THEN st
    ELSE Then(do_export_mesh(per_file, meshArray[k], st.data, st.files, yields, st.morph),
              LAMBDA r :
                  LET next == [ data       |-> r.data,
                                files      |-> r.files,
                                morph      |-> r.morph,
                                mesh_datas |-> << >>,
                                calls      |-> Append(st.calls, r.call),
                                raised     |-> r.call.outcome = "raised" ]
                  IN  IF next.raised \/ r.call.outcome = "warned" THEN next
                      ELSE MeshLoopStopOnWarning(per_file, meshArray, yields, k + 1, next))

RECURSIVE MeshLoop(_, _, _, _, _)
\* the mesh loop of export_objects from entry k on: mesh_datas is emptied
\* before every call, and an exception of a call ends the loop
MeshLoop(per_file, meshArray, yields, k, st) ==
    IF k > Len(meshArray) THEN st
    ELSE Then(do_export_mesh(per_file, meshArray[k], st.data, st.files, yields, st.morph),
              LAMBDA r :
                  LET next == [ data       |-> r.data,
                                files      |-> r.files,
                                morph      |-> r.morph,
                                mesh_datas |-> << >>,
                                calls      |-> Append(st.calls, r.call),
                                raised     |-> r.call.outcome = "raised" ]
                  IN  IF next.raised THEN next
                      ELSE MeshLoop(per_file, meshArray, yields, k + 1, next))

\* export_objects with option_mesh_only set: the mesh loop alone
export_mesh_datas(per_file, meshArray, dt, fs, yields, sh) ==
    MeshLoop(per_file, meshArray, yields, 1,
             [ data |-> dt, files |-> fs, morph |-> sh, mesh_datas |-> << >>,
               calls |-> << >>, raised |-> FALSE ])

\* no export is running and none has just returned
IdleRun == [ idle |-> TRUE ]

\* the shared state outside an export run
AtRest == pc = "idle" \/ pc = "done"

\* the user edits a mesh: its vertex and edge counts change
EditMesh ==
    \E v \in 1 .. MaxVerts, e \in { 0, 1 } :
        /\ AtRest
        /\ <<v, e>> # <<data["CubeMesh"].vertices, data["CubeMesh"].edges>>
        /\ data' = [data EXCEPT !["CubeMesh"].vertices = v, !["CubeMesh"].edges = e]
        /\ pc' = "idle" /\ run' = IdleRun
        /\ UNCHANGED <<meshVars, skinVars, animVars, walkVars, morph, files, host, materials, shader, scene>>

\* an exported artifact is removed from the output target
DeleteArtifact ==
    \E fp \in files :
        /\ AtRest
        /\ files' = files \ { fp }
        /\ pc' = "idle" /\ run' = IdleRun
        /\ UNCHANGED <<meshVars, skinVars, animVars, walkVars, morph, data, host, materials, shader, scene>>

\* the host starts or stops yielding a mesh for the cube (to_mesh)
SetHost ==
    /\ AtRest
    /\ host' = [host EXCEPT !["CubeMesh"] = ~@]
    /\ pc' = "idle" /\ run' = IdleRun
    /\ UNCHANGED <<meshVars, skinVars, animVars, walkVars, morph, data, files, materials, shader, scene>>

\* a material's layout change clears the flag of a data-block (export_materials)
InvalidateMesh ==
    \E d \in MeshDataNames :
        /\ AtRest
        /\ data[d].mesh_cached
        /\ data' = [data EXCEPT ![d].mesh_cached = FALSE]
        /\ pc' = "idle" /\ run' = IdleRun
        /\ UNCHANGED <<meshVars, skinVars, animVars, walkVars, morph, files, host, materials, shader, scene>>

\* one call of do_export_mesh
CallDoExportMesh ==
    \E d \in MeshDataNames :
        LET r == do_export_mesh(option_mesh_per_file, d, data, files, host, morph)
        IN  /\ pc = "idle"
            /\ data' = r.data
            /\ files' = r.files
            /\ morph' = r.morph
            /\ run' = [ checks |-> << r.call >> ]
            /\ UNCHANGED <<meshVars, skinVars, animVars, walkVars, host, materials, shader, scene, pc>>

\* export_objects over the mesh array; every mesh goes to its own file, as
\* preprocess sets the output-granularity option before the call
ExportObjects ==
    \E r \in { export_mesh_datas(option_mesh_per_file, MeshArray, data, files, host, morph) } :
        /\ pc = "idle"
        /\ data' = r.data
        /\ files' = r.files
        /\ morph' = r.morph
        /\ run' = [ checks |-> << >>,
                    loop   |-> [ per_file   |-> option_mesh_per_file,
                                 files      |-> files,
                                 calls      |-> r.calls,
                                 mesh_datas |-> r.mesh_datas,
                                 raised     |-> r.raised ] ]
        /\ UNCHANGED <<meshVars, skinVars, animVars, walkVars, host, materials, shader, scene, pc>>

InitCache ==
    /\ IdleMesh
    /\ IdleSkin
    /\ IdleAnim
    /\ IdleWalk
    /\ data = InitData
    /\ files = {}
    /\ host = [ d \in MeshDataNames |-> TRUE ]
    /\ morph = [ d \in MeshDataNames |-> IF d = "CubeMesh" THEN KeyedCube ELSE NoShapeKeys ]
    /\ materials = <<>> /\ shader = <<>> /\ scene = <<>>
    /\ pc = "idle"
    /\ run = IdleRun

NextCache == CallDoExportMesh \/ ExportObjects \/ EditMesh \/ DeleteArtifact \/ SetHost \/ InvalidateMesh

SpecCache == InitCache /\ [][NextCache]_vars

\* the do_export_mesh calls recorded by the current state
Checks == IF run = IdleRun THEN << >> ELSE run.checks

\* the condition under which the cache promises a skip, read off the state
\* the call started from
SkipCondition(c) ==
    /\ \/ c.before.type \in { "FONT", "META" }
       \/ /\ c.before.mesh_cached_verts = c.before.vertices
          /\ c.before.mesh_cached_edges = c.before.edges
    /\ c.before.mesh_cached
    /\ c.exists

\* C7: do_export_mesh skips regeneration iff the cached vertex and edge counts
\* equal the current counts (font / metaball data: flag only), the validity
\* flag is set and the exported artifact exists; a skipped call builds and
\* writes nothing.
C7_SkipIffCacheValid ==
    \A k \in DOMAIN Checks :
        LET c == Checks[k]
        IN  /\ (c.outcome = "skipped") <=> SkipCondition(c)
            /\ (pc = "idle" /\ c.outcome = "skipped") => data[c.data] = c.before

\* a skip of an unchanged mesh has been seen after an edit by one vertex forced
\* a regeneration, and a font call was decided on the flag alone
C7_Witness ==
    /\ pc = "idle"
    /\ Checks # << >>
    /\ Checks[1].data = "CubeMesh"
    /\ Checks[1].outcome = "skipped"
    /\ Checks[1].before.vertices = MaxVerts
    /\ Checks[1].before.edges = 1

\* C8 as stated: after a call whose cache check found a mismatch the mesh was
\* regenerated, the entry is valid with the current counts, and a following
\* check with the artifact present reports the mesh as cached.
C8_MismatchRegenerates ==
    \A k \in DOMAIN Checks :
        LET c == Checks[k]
        IN  (pc = "idle" /\ ~SkipCondition(c)) =>
                /\ c.outcome = "written"
                /\ data[c.data].mesh_cached
                /\ object_is_mesh_cached(data[c.data])
                /\ get_meshes_file_path("mesh", c.data) \in files

\* C8 amended: a mismatch forces the regeneration and the update of the entry
\* whenever the host yields a mesh for the object; when it yields none the call
\* ends with a warning and leaves the entry and the artifacts as they were.
C8_MismatchRegeneratesIfMeshYielded ==
    \A k \in DOMAIN Checks :
        LET c == Checks[k]
        IN  (pc = "idle" /\ ~SkipCondition(c)) =>
                IF c.yields
                THEN /\ c.outcome = "written"
                     /\ data[c.data].mesh_cached
                     /\ DataType(c.data) = "MESH" =>
                           /\ data[c.data].mesh_cached_verts = data[c.data].vertices
                           /\ data[c.data].mesh_cached_edges = data[c.data].edges
                     /\ get_meshes_file_path("mesh", c.data) \in files
                     /\ do_export_mesh(option_mesh_per_file, c.data, data, files, host, morph).call.outcome = "skipped"
                ELSE /\ c.outcome = "warned"
                     /\ data[c.data] = c.before

\* a regeneration that replaced a stale entry: counts had changed since the
\* last export and the artifact was present
C8_Witness ==
    /\ pc = "idle"
    /\ Checks # << >>
    /\ Checks[1].outcome = "written"
    /\ Checks[1].before.mesh_cached
    /\ Checks[1].exists
    /\ Checks[1].before.mesh_cached_verts # Checks[1].before.vertices

\* ------------------------------------------------------------------------
\* The exported scene (execute)
\* ------------------------------------------------------------------------

\* scene.frame_end of the modelled scene; scene.frame_start is 1
MaxFrame == 2

\* the objects of scene.objects, all without a parent and all passing
\* preprocess_object; the meshes have no action of their own (no f-curves), so
\* export_object_transform samples them iff their rotation mode asks for it;
\* the armature's f-curves are those of its action (BoneCurves)
SceneObjects ==
    << [ name |-> "Rig",  type |-> "ARMATURE", data |-> "RigData",
         material_slots |-> << >>, rotation_mode |-> "XYZ",
         animated |-> FALSE, export_bone_data |-> FALSE ],
       [ name |-> "Cube", type |-> "MESH", data |-> "CubeMesh",
         material_slots |-> << "MatA" >>, rotation_mode |-> "QUATERNION", fcurves |-> << >>,
         animated |-> TRUE, export_bone_data |-> TRUE ],
       [ name |-> "Text", type |-> "FONT", data |-> "TextCurve",
         material_slots |-> << "MatB" >>, rotation_mode |-> "XYZ", fcurves |-> << >>,
         animated |-> FALSE, export_bone_data |-> FALSE ],
       [ name |-> "Blob", type |-> "META", data |-> "BlobMeta",
         material_slots |-> << "MatB" >>, rotation_mode |-> "AXIS_ANGLE", fcurves |-> << >>,
         animated |-> FALSE, export_bone_data |-> FALSE ] >>

\* the bones of the armature in the order export_bone reaches them, with the
\* pose bone's parent; "curves" tells whether the action has f-curves for the
\* bone (collect_bone_animation), "animated" whether its pose matrix changes
\* in time
RigBones ==
    << [ name |-> "Root", parent |-> "",     curves |-> TRUE,  animated |-> TRUE ],
       [ name |-> "Hand", parent |-> "Root", curves |-> TRUE,  animated |-> TRUE ],
       [ name |-> "Tip",  parent |-> "Hand", curves |-> FALSE, animated |-> TRUE ],
       [ name |-> "Pole", parent |-> "",     curves |-> TRUE,  animated |-> FALSE ] >>

\* the data path of a bone's location curve
BonePath ==
    [ b \in { "Root", "Hand", "Tip", "Pole" } |->
        CASE b = "Root" -> "pose.bones[\"Root\"].location"
          [] b = "Hand" -> "pose.bones[\"Hand\"].location"
          [] b = "Tip"  -> "pose.bones[\"Tip\"].location"
          [] b = "Pole" -> "pose.bones[\"Pole\"].location" ]

\* action.fcurves of the armature's action: a location curve with two keys
\* for every bone the action has curves for, all keys of the interpolation
\* the scene holds for the action
BoneCurves(interpolation) ==
    LET keyed == SelectSeq(RigBones, LAMBDA bone : bone.curves)
    IN  [ j \in DOMAIN keyed |->
            [ data_path       |-> BonePath[keyed[j].name],
              array_index     |-> 0,
              keyframe_points |->
                  [ k \in 1 .. 2 |->
                      [ interpolation |-> interpolation,
                        co            |-> << 2 * k, k - 1 >>,
                        handle_left   |-> << 2 * k - 1, k - 1 >>,
                        handle_right  |-> << 2 * k + 1, k - 1 >> ] ] ] ]

\* frame range of the armature's action, wider than the timeline
RigAction == [ name |-> "RigAction", frame_range |-> <<0, MaxFrame + 1>> ]

\* the world's arm_sampled_animation option, copied by preprocess
sample_animation_flag == FALSE

\* the entry of a transform matrix that the animation drives, as the host
\* evaluates it at the scene's current time (frame and tenths of a frame)
MatrixAt(animated, sc) ==
    IF animated THEN 10 * sc.frame_current + sc.frame_subframe ELSE 0

\* what a sampled export reads: an object's matrix_local, a pose bone's
\* matrix, or parent.matrix.inverted() * poseBone.matrix for a bone with a
\* parent (a difference, for the translation entry the model keeps)
ObjectSource(bobject) ==
    [ animated |-> bobject.animated, relative |-> FALSE, parent_animated |-> FALSE ]

BoneSource(poseBone) ==
    [ animated |-> poseBone.animated,
      relative |-> poseBone.parent # "",
      parent_animated |-> \E b \in DOMAIN RigBones :
                             RigBones[b].name = poseBone.parent /\ RigBones[b].animated ]

write_matrix(src, sc) ==
    IF src.relative
    THEN MatrixAt(src.animated, sc) - MatrixAt(src.parent_animated, sc)
    ELSE MatrixAt(src.animated, sc)

matrices_different(m1, m2) == m1 # m2

\* scene.frame_set(frame, subframe); subframe defaults to 0.0
frame_set(sc, frame, subframe) ==
    [sc EXCEPT !.frame_current = frame, !.frame_subframe = subframe]

RECURSIVE DetectAnimation(_, _, _, _, _)
\* the detection loop of the sampled exports: frames i .. end-1 are set one
\* by one until the matrix differs from m1
DetectAnimation(src, m1, sc, i, end) ==
    IF i >= end THEN [ scene |-> sc, animationFlag |-> FALSE ]
    ELSE LET at == frame_set(sc, i, 0)
         IN  IF matrices_different(m1, MatrixAt(src.animated, at))
             THEN [ scene |-> at, animationFlag |-> TRUE ]
             ELSE DetectAnimation(src, m1, at, i + 1, end)

RECURSIVE SampleValues(_, _, _, _)
\* the sampling loop: the matrix at every frame i .. end-1
SampleValues(src, sc, i, end) ==
    IF i >= end THEN [ scene |-> sc, values |-> << >> ]
    ELSE LET at   == frame_set(sc, i, 0)
             rest == SampleValues(src, at, i + 1, end)
         IN  [ scene |-> rest.scene,
               values |-> << write_matrix(src, at) >> \o rest.values ]

\* the track of a sampled export: times in units of frameTime, then the values
\* of the frames begin .. end-1 and of the frame end
SampledTrack(src, sc, begin, end) ==
    LET loop == SampleValues(src, sc, begin, end)
        last == frame_set(loop.scene, end, 0)
    IN  [ scene |-> last,
          track |-> [ target |-> "transform",
                      times  |-> [ k \in 1 .. (IF end > begin THEN end - begin ELSE 0)
                                      |-> k - 1 ] \o << end >>,
                      values |-> loop.values \o << write_matrix(src, last) >> ] ]

NoAnimation == [ none |-> TRUE ]

\* the body shared by export_object_sampled_animation and
\* export_bone_sampled_animation up to, not including, the closing frame_set
SampledAnimationBody(src, sc, begin, end) ==
    LET m1     == MatrixAt(src.animated, sc)
        detect == DetectAnimation(src, m1, sc, begin, end)
    IN  IF detect.animationFlag
        THEN LET s == SampledTrack(src, detect.scene, begin, end)
             IN  [ scene |-> s.scene, animation |-> [ tracks |-> << s.track >> ] ]
        ELSE [ scene |-> detect.scene, animation |-> NoAnimation ]

\* a sampled export that returns without the closing frame_set
SampledAnimationNoRestore(src, sc, begin, end) ==
    SampledAnimationBody(src, sc, begin, end)

\* the sampled export of one object or bone: the body, then
\* scene.frame_set(currentFrame, currentSubframe)
SampledAnimation(src, sc, begin, end) ==
    LET currentFrame    == sc.frame_current
        currentSubframe == sc.frame_subframe
        body            == SampledAnimationBody(src, sc, begin, end)
    IN  [ scene     |-> frame_set(body.scene, currentFrame, currentSubframe),
          animation |-> body.animation ]

export_object_sampled_animation(bobject, sc, beginFrame, endFrame) ==
    SampledAnimation(ObjectSource(bobject), sc, beginFrame, endFrame)

\* action.frame_range capped to the timeline
get_action_framerange(action, beginFrame, endFrame) ==
    << IF beginFrame > action.frame_range[1] THEN beginFrame ELSE action.frame_range[1],
       IF endFrame < action.frame_range[2] THEN endFrame ELSE action.frame_range[2] >>

export_bone_sampled_animation(poseBone, sc, action, beginFrame, endFrame) ==
    LET range == get_action_framerange(action, beginFrame, endFrame)
    IN  SampledAnimation(BoneSource(poseBone), sc, range[1], range[2])

\* ------------------------------------------------------------------------
\* Materials (export_materials)
\* ------------------------------------------------------------------------

MaterialNames == { "MatA", "MatB" }

\* name of the copy that execute gives a skinned object: name + '_armskin'
ArmSkinName(m) == IF m = "MatA" THEN "MatA_armskin" ELSE "MatB_armskin"

\* the material a name belongs to once the '_armskin' suffix is cut off
OrigName(m) ==
    CASE m = "MatA_armskin" -> "MatA"
      [] m = "MatB_armskin" -> "MatB"
      [] OTHER -> m

\* vertex structures of the contexts that make_material.parse returns for a
\* material, by what its node tree asks for
ShaderOptions ==
    { << << "pos", "nor" >> >>,
      << << "pos", "nor", "tex" >>, << "pos" >> >>,
      << << "pos", "nor", "tex", "col", "tang" >>, << "pos" >> >> }

\* a material that was never exported
NewMaterial ==
    [ export_uvs |-> FALSE, export_vcols |-> FALSE, export_tangents |-> FALSE,
      vertex_structure |-> << >> ]

\* the flags export_materials derives from the contexts of a material and the
\* element names it joins into material.vertex_structure
DerivedLayout(contexts) ==
    LET names == Flatten(contexts)
    IN  [ export_uvs       |-> \E k \in DOMAIN names : names[k] = "tex",
          export_vcols     |-> \E k \in DOMAIN names : names[k] = "col",
          export_tangents  |-> \E k \in DOMAIN names : names[k] = "tang",
          vertex_structure |-> names ]

\* the comparison of the derived flags with the flags stored on the material
FlagsDiffer(material, derived) ==
    \/ material.export_tangents # derived.export_tangents
    \/ material.export_uvs # derived.export_uvs
    \/ material.export_vcols # derived.export_vcols

\* the data-block of the object of that name (ob.data)
DataOf(name) ==
    LET k == CHOOSE k \in DOMAIN SceneObjects : SceneObjects[k].name = name
    IN  SceneObjects[k].data

\* clears the flag of the first user only
ClearFirstUser(dt, mat_users) ==
    IF mat_users = << >> THEN dt
    ELSE [dt EXCEPT ![DataOf(mat_users[1])].mesh_cached = FALSE]

RECURSIVE ClearMeshCached(_, _)
\* for ob in mat_users: ob.data.mesh_cached = False
ClearMeshCached(dt, mat_users) ==
    IF mat_users = << >> THEN dt
    ELSE ClearMeshCached([dt EXCEPT ![DataOf(Head(mat_users))].mesh_cached = FALSE],
                         Tail(mat_users))

RECURSIVE export_materials(_, _, _, _, _)
\* the loop of export_materials over materialArray from position k on; st
\* holds the materials, the data-blocks and the materials found changed
export_materials(materialArray, materialToObjectDict, sh, st, k) ==
    IF k > Len(materialArray) THEN st
    ELSE LET material == materialArray[k]
             derived  == DerivedLayout(sh[OrigName(material)])
             stored   == st.materials[material]
             differ   == FlagsDiffer(stored, derived)
             next     ==
                 [ materials |-> [st.materials EXCEPT ![material] =
                       IF differ THEN derived
                       ELSE [stored EXCEPT !.vertex_structure = derived.vertex_structure]],
                   data      |-> IF differ
                                 THEN ClearMeshCached(st.data, materialToObjectDict[material])
                                 ELSE st.data,
                   changed   |-> IF differ THEN st.changed \cup { material }
                                 ELSE st.changed ]
         IN  export_materials(materialArray, materialToObjectDict, sh, next, k + 1)

\* ------------------------------------------------------------------------
\* Animation curve classifier
\* ------------------------------------------------------------------------

AnimationTypeSampled == 0
AnimationTypeLinear == 1
AnimationTypeBezier == 2

\* key values are integer multiples of 1.0e-6
ExportEpsilon == 1

\* math.fabs
fabs(x) == IF x < 0 THEN 0 - x ELSE x

\* a classification that skips a key whose interpolation is neither linear
\* nor Bezier instead of returning Sampled for it
ClassifyLoopNoReturn(keys, i, linear_count, bezier_count) ==
    LET linear == Cardinality({ k \in DOMAIN keys : keys[k].interpolation = "LINEAR" })
        bezier == Cardinality({ k \in DOMAIN keys : keys[k].interpolation = "BEZIER" })
    IN  IF bezier = 0 THEN AnimationTypeLinear
        ELSE IF linear = 0 THEN AnimationTypeBezier
        ELSE AnimationTypeSampled

RECURSIVE ClassifyLoop(_, _, _, _)
\* the loop of classify_animation_curve from key i on and the decision that
\* follows it
ClassifyLoop(keys, i, linear_count, bezier_count) ==
    IF i > Len(keys)
    THEN IF bezier_count = 0 THEN AnimationTypeLinear
         ELSE IF linear_count = 0 THEN AnimationTypeBezier
         ELSE AnimationTypeSampled
    ELSE LET interp == keys[i].interpolation
         IN  IF interp = "LINEAR"
             THEN ClassifyLoop(keys, i + 1, linear_count + 1, bezier_count)
             ELSE IF interp = "BEZIER"
             THEN ClassifyLoop(keys, i + 1, linear_count, bezier_count + 1)
             ELSE AnimationTypeSampled

classify_animation_curve(curve) == ClassifyLoop(curve.keyframe_points, 1, 0, 0)

\* a comparison of every key with the key before it (key1 = key2 at the end
\* of the loop body)
animation_keys_successive(curve) ==
    LET keys == curve.keyframe_points
    IN  \E i \in 2 .. Len(keys) :
           fabs(keys[i].co[2] - keys[i - 1].co[2]) > ExportEpsilon

\* key1 is the value of the first key for the whole loop
animation_keys_different(curve) ==
    LET keys      == curve.keyframe_points
        key_count == Len(keys)
    IN  /\ key_count > 0
        /\ \E i \in 2 .. key_count :
              fabs(keys[i].co[2] - keys[1].co[2]) > ExportEpsilon

animation_tangents_nonzero(curve) ==
    LET keys == curve.keyframe_points
    IN  \E i \in DOMAIN keys :
           \/ fabs(keys[i].co[2] - keys[i].handle_left[2]) > ExportEpsilon
           \/ fabs(keys[i].handle_right[2] - keys[i].co[2]) > ExportEpsilon

animation_present(curve, kind) ==
    IF kind # AnimationTypeBezier
    THEN animation_keys_different(curve)
    ELSE animation_keys_different(curve) \/ animation_tangents_nonzero(curve)

\* times are in units of frameTime
export_key_times(curve, beginFrame) ==
    [ i \in DOMAIN curve.keyframe_points |->
        curve.keyframe_points[i].co[1] - beginFrame ]

\* returns keyminuso, keypluso
export_key_time_control_points(curve, beginFrame) ==
    << [ values |-> [ i \in DOMAIN curve.keyframe_points |->
                        curve.keyframe_points[i].handle_left[1] - beginFrame ] ],
       [ values |-> [ i \in DOMAIN curve.keyframe_points |->
                        curve.keyframe_points[i].handle_right[1] - beginFrame ] ] >>

export_key_values(curve) ==
    [ i \in DOMAIN curve.keyframe_points |-> curve.keyframe_points[i].co[2] ]

\* returns keypluso, keypluso
export_key_value_control_points(curve) ==
    LET keypluso == [ i \in DOMAIN curve.keyframe_points |->
                        curve.keyframe_points[i].handle_right[2] ]
    IN  << keypluso, keypluso >>

export_animation_track(curve, kind, target, beginFrame) ==
    IF kind # AnimationTypeBezier
    THEN [ target |-> target,
           times  |-> export_key_times(curve, beginFrame),
           values |-> export_key_values(curve) ]
    ELSE LET tc == export_key_time_control_points(curve, beginFrame)
             vc == export_key_value_control_points(curve)
         IN  [ target |-> target,
               curve  |-> "bezier",
               times  |-> export_key_times(curve, beginFrame),
               times_control_plus   |-> tc[1],
               times_control_minus  |-> tc[2],
               values |-> export_key_values(curve),
               values_control_plus  |-> vc[1],
               values_control_minus |-> vc[2] ]

\* ------------------------------------------------------------------------
\* The transform of one object (export_object_transform)
\* ------------------------------------------------------------------------

\* the six animated component groups in the order their tracks are
\* exported, each with its channel names (subtranslationName ... and the
\* delta names) and with the type of its transform entries
ComponentGroups ==
    << [ path |-> "location",             type |-> "translation",
         names |-> << "xloc", "yloc", "zloc" >> ],
       [ path |-> "rotation_euler",       type |-> "rotation",
         names |-> << "xrot", "yrot", "zrot" >> ],
       [ path |-> "scale",                type |-> "scale",
         names |-> << "xscl", "yscl", "zscl" >> ],
       [ path |-> "delta_location",       type |-> "translation",
         names |-> << "dxloc", "dyloc", "dzloc" >> ],
       [ path |-> "delta_rotation_euler", type |-> "rotation",
         names |-> << "dxrot", "dyrot", "dzrot" >> ],
       [ path |-> "delta_scale",          type |-> "scale",
         names |-> << "dxscl", "dyscl", "dzscl" >> ] >>

axisName == << "x", "y", "z" >>

\* no curve was found for a component
NoCurve == [ none |-> TRUE ]

\* a loop over the f-curves that goes on after a curve classified Sampled
AnimCurveLoopNoBreak(fcurves, k, found) ==
    [ sampledAnimation |-> FALSE,
      found |-> [ g \in DOMAIN ComponentGroups |-> [ i \in 1 .. 3 |->
          LET hits == { j \in DOMAIN fcurves :
                          /\ classify_animation_curve(fcurves[j]) # AnimationTypeSampled
                          /\ fcurves[j].data_path = ComponentGroups[g].path
                          /\ fcurves[j].array_index = i - 1 }
          IN  IF hits = {} THEN NoCurve
              ELSE LET j == CHOOSE j \in hits : \A h \in hits : j <= h
                       kind == classify_animation_curve(fcurves[j])
                   IN  [ curve |-> fcurves[j], kind |-> kind,
                         animated |-> animation_present(fcurves[j], kind) ] ] ] ]

RECURSIVE AnimCurveLoop(_, _, _)
\* the loop over action.fcurves from position k on: found[g][i] is the first
\* curve of group g and array index i-1 with its kind and presence; the loop
\* breaks with sampledAnimation at a curve classified Sampled or driving a
\* quaternion or axis-angle rotation
AnimCurveLoop(fcurves, k, found) ==
    IF k > Len(fcurves) THEN [ sampledAnimation |-> FALSE, found |-> found ]
    ELSE LET curve == fcurves[k]
             kind  == classify_animation_curve(curve)
             group == { g \in DOMAIN ComponentGroups :
                          ComponentGroups[g].path = curve.data_path }
         IN  IF kind = AnimationTypeSampled
             THEN [ sampledAnimation |-> TRUE, found |-> found ]
             ELSE IF group # {}
             THEN LET g == CHOOSE g \in group : TRUE
                      i == curve.array_index + 1
                  IN  IF i \in 1 .. 3 /\ found[g][i] = NoCurve
                      THEN AnimCurveLoop(fcurves, k + 1,
                              [found EXCEPT ![g][i] =
                                  [ curve |-> curve, kind |-> kind,
                                    animated |-> animation_present(curve, kind) ]])
                      ELSE AnimCurveLoop(fcurves, k + 1, found)
             ELSE IF curve.data_path \in { "rotation_axis_angle", "rotation_quaternion",
                                           "delta_rotation_quaternion" }
             THEN [ sampledAnimation |-> TRUE, found |-> found ]
             ELSE AnimCurveLoop(fcurves, k + 1, found)

\* locAnimated[i], rotAnimated[i], ... of group g
CompAnimated(found, g) ==
    [ i \in 1 .. 3 |-> found[g][i] # NoCurve /\ found[g][i].animated ]

\* locationAnimated, rotationAnimated, ... of group g
GroupAnimated(found, g) == \E i \in 1 .. 3 : CompAnimated(found, g)[i]

\* object values are integer multiples of 1.0e-6; this is 1.0
One == 1000000

\* the entries appended to animation_transforms for one translation or
\* scale vector: one per component when the group is animated, else one for
\* the whole vector if it is not the identity
VectorTransforms(found, g, vec, identity) ==
    LET grp == ComponentGroups[g]
    IN  IF GroupAnimated(found, g)
        THEN Flatten([ i \in 1 .. 3 |->
                 IF CompAnimated(found, g)[i] \/ fabs(vec[i]) > ExportEpsilon
                 THEN << [ type |-> << grp.type, axisName[i] >>,
                           name |-> grp.names[i], value |-> vec[i] ] >>
                 ELSE << >> ])
        ELSE IF \E i \in 1 .. 3 : fabs(vec[i] - identity) > ExportEpsilon
        THEN << [ type |-> << grp.type >>, values |-> vec ] >>
        ELSE << >>

\* the entries for one Euler rotation in an Euler rotation mode: the axes
\* are visited in the order ord(mode[2 - i]) - 0x58 ("XYZ": z, y, x)
RotationTransforms(found, g, vec, order) ==
    LET grp == ComponentGroups[g]
    IN  Flatten([ i \in 1 .. 3 |->
            LET axis == order[i]
            IN  IF GroupAnimated(found, g)
                THEN IF CompAnimated(found, g)[axis] \/ fabs(vec[axis]) > ExportEpsilon
                     THEN << [ type |-> << grp.type, axisName[axis] >>,
                               name |-> grp.names[axis], value |-> vec[axis] ] >>
                     ELSE << >>
                ELSE IF fabs(vec[axis]) > ExportEpsilon
                     THEN << [ type |-> << grp.type, axisName[axis] >>,
                               value |-> vec[axis] ] >>
                     ELSE << >> ])

\* the tracks of the animated components, group by group
ComponentTracks(found, beginFrame) ==
    Flatten(Flatten([ g \in DOMAIN ComponentGroups |-> [ i \in 1 .. 3 |->
        IF GroupAnimated(found, g) /\ CompAnimated(found, g)[i]
        THEN << export_animation_track(found[g][i].curve, found[g][i].kind,
                                       ComponentGroups[g].names[i], beginFrame) >>
        ELSE << >> ] ]))

\* ------------------------------------------------------------------------
\* execute, one step per phase
\* ------------------------------------------------------------------------

Names(objs) == [ k \in DOMAIN objs |-> objs[k].name ]

\* position of x in the sequence s, or 0
IndexOf(s, x) == IF \E k \in DOMAIN s : s[k] = x
                 THEN CHOOSE k \in DOMAIN s : s[k] = x /\ \A j \in 1 .. k - 1 : s[j] # x
                 ELSE 0

AppendNew(s, x) == IF IndexOf(s, x) = 0 THEN Append(s, x) ELSE s

\* the material slots of every object after the skinned objects' slots were
\* pointed at '_armskin' copies
VariantSlots ==
    [ k \in DOMAIN SceneObjects |->
        IF SceneObjects[k].export_bone_data
        THEN [ j \in DOMAIN SceneObjects[k].material_slots |->
                  ArmSkinName(SceneObjects[k].material_slots[j]) ]
        ELSE SceneObjects[k].material_slots ]

\* the copies to create: those no material of that name exists for yet
NewVariants(mats) ==
    { m \in Range(Flatten(VariantSlots)) : m \notin DOMAIN mats }

\* the start of execute up to the export_object loop: the frame is noted, the
\* run's tables are reset, preprocess runs, every object is registered and the
\* material variants are created; "repeated" notes that the run starts right
\* after a finished run, with nothing done to the scene in between
ExecuteBegin ==
    /\ AtRest
    /\ run' = [ originalFrame        |-> scene.frame_current,
                originalSubframe     |-> scene.frame_subframe,
                restoreFrame         |-> FALSE,
                beginFrame           |-> scene.frame_start,
                endFrame             |-> scene.frame_end,
                bobjectArray         |-> Names(SceneObjects) \o Names(RigBones),
                meshArray            |-> << >>,
                materialArray        |-> << >>,
                materialToObjectDict |-> << >>,
                material_slots       |-> VariantSlots,
                matvars              |-> NewVariants(materials),
                objects              |-> << >>,
                calls                |-> << >>,
                changed              |-> {},
                checks               |-> << >>,
                repeated             |-> pc = "done",
                next                 |-> 1 ]
    /\ materials' = [ m \in DOMAIN materials \cup NewVariants(materials) |->
                        IF m \in DOMAIN materials THEN materials[m]
                        ELSE materials[OrigName(m)] ]
    /\ pc' = "objects"
    /\ UNCHANGED <<meshVars, skinVars, animVars, walkVars, morph, data, files, host, shader, scene>>

\* the record of one call of a sampled export
SampledCall(fn, target, entry, result) ==
    [ fn |-> fn, target |-> target,
      entry |-> <<entry.frame_current, entry.frame_subframe>>,
      exit  |-> <<result.scene.frame_current, result.scene.frame_subframe>>,
      animated |-> result.animation # NoAnimation ]

\* export_object_transform: the object is sampled when the option or its
\* rotation mode asks for it or when the f-curve loop says so; it gets a
\* single matrix when nothing is animated, and transform entries with
\* component tracks otherwise (Euler mode "XYZ")
export_object_transform(bobject, sc, beginFrame, endFrame) ==
    LET mode      == bobject.rotation_mode
        byMode    == \/ sample_animation_flag
                     \/ mode = "QUATERNION"
                     \/ mode = "AXIS_ANGLE"
        none      == [ g \in DOMAIN ComponentGroups |-> [ i \in 1 .. 3 |-> NoCurve ] ]
        loop      == IF byMode
                     THEN [ sampledAnimation |-> TRUE, found |-> none ]
                     ELSE AnimCurveLoop(bobject.fcurves, 1, none)
        sampledAnimation == loop.sampledAnimation
        found     == loop.found
        transform == [ values |-> write_matrix(ObjectSource(bobject), sc) ]
    IN  IF sampledAnimation
        THEN LET r == export_object_sampled_animation(bobject, sc, beginFrame, endFrame)
             IN  [ scene |-> r.scene,
                   o     |-> [ transform |-> [ target |-> "transform" ] @@ transform,
                               animation |-> r.animation ],
                   calls |-> << SampledCall("export_object_sampled_animation",
                                            bobject.name, sc, r) >> ]
        ELSE IF \A g \in DOMAIN ComponentGroups : ~GroupAnimated(found, g)
        THEN [ scene |-> sc,
               o     |-> [ transform |-> transform, animation |-> NoAnimation ],
               calls |-> << >> ]
        ELSE [ scene |-> sc,
               o     |-> [ transform |-> transform,
                           animation_transforms |->
                               VectorTransforms(found, 4, bobject.delta_location, 0)
                               \o VectorTransforms(found, 1, bobject.location, 0)
                               \o RotationTransforms(found, 5, bobject.delta_rotation_euler,
                                                     << 3, 2, 1 >>)
                               \o RotationTransforms(found, 2, bobject.rotation_euler,
                                                     << 3, 2, 1 >>)
                               \o VectorTransforms(found, 6, bobject.delta_scale, One)
                               \o VectorTransforms(found, 3, bobject.scale, One),
                           animation |->
                               [ begin  |-> bobject.action_frame_range[1] - beginFrame,
                                 end    |-> bobject.action_frame_range[2] - beginFrame,
                                 tracks |-> ComponentTracks(found, beginFrame) ] ],
               calls |-> << >> ]

RECURSIVE export_bones(_, _, _, _, _)
\* export_bone over the bones from position k on: export_bone_transform
\* samples a bone that has f-curves (or when the option is set)
export_bones(k, sc, action, beginFrame, endFrame) ==
    IF k > Len(RigBones) THEN [ scene |-> sc, bones |-> << >>, calls |-> << >> ]
    ELSE LET bone       == RigBones[k]
             animation  == bone.curves \/ sample_animation_flag
             r          == export_bone_sampled_animation(bone, sc, action,
                                                         beginFrame, endFrame)
             after      == IF animation THEN r.scene ELSE sc
             rest       == export_bones(k + 1, after, action, beginFrame, endFrame)
         IN  [ scene |-> rest.scene,
               bones |-> << [ name |-> bone.name,
                              animation |-> IF animation THEN r.animation
                                            ELSE NoAnimation ] >> \o rest.bones,
               calls |-> (IF animation
                          THEN << SampledCall("export_bone_sampled_animation",
                                              bone.name, sc, r) >>
                          ELSE << >>) \o rest.calls ]

RECURSIVE MapUsers(_, _, _)
\* post_export_object: the object is appended to the users of every material
\* in its slots
MapUsers(dict, name, slots) ==
    IF slots = << >> THEN dict
    ELSE LET mat == Head(slots)
             upd == IF mat \in DOMAIN dict
                    THEN [dict EXCEPT ![mat] = Append(@, name)]
                    ELSE dict @@ (mat :> << name >>)
         IN  MapUsers(upd, name, Tail(slots))

RECURSIVE MaterialRefs(_, _)
\* export_material_ref over the slots: unseen materials join materialArray
MaterialRefs(materialArray, slots) ==
    IF slots = << >> THEN materialArray
    ELSE MaterialRefs(AppendNew(materialArray, Head(slots)), Tail(slots))

\* export_object of the next object of scene.objects
ExportObject ==
    LET k       == run.next
        \* bobject.animation_data.action.fcurves of the armature
        bobject == IF SceneObjects[k].type = "ARMATURE"
                   THEN [ fcurves |-> BoneCurves(scene.action_interpolation) ]
                        @@ SceneObjects[k]
                   ELSE SceneObjects[k]
        slots   == run.material_slots[k]
        isMesh  == bobject.type \in { "MESH", "FONT", "META" }
        tr      == export_object_transform(bobject, scene, run.beginFrame, run.endFrame)
        fp      == get_meshes_file_path("bones", <<bobject.data, RigAction.name>>)
        doBones == /\ bobject.type = "ARMATURE"
                   /\ (data[bobject.data].data_cached = FALSE \/ fp \notin files)
        bn      == export_bones(1, tr.scene, RigAction, run.beginFrame, run.endFrame)
    IN  /\ pc = "objects"
        /\ scene' = IF doBones THEN bn.scene ELSE tr.scene
        /\ files' = IF doBones THEN files \cup { fp } ELSE files
        /\ data' = IF bobject.type = "ARMATURE"
                   THEN [data EXCEPT ![bobject.data].data_cached = TRUE]
                   ELSE data
        /\ run' = [run EXCEPT
                     !.meshArray = IF isMesh THEN AppendNew(@, bobject.data) ELSE @,
                     !.materialArray = IF isMesh THEN MaterialRefs(@, slots) ELSE @,
                     !.materialToObjectDict = MapUsers(@, bobject.name, slots),
                     !.objects = Append(@, [ name |-> bobject.name ] @@ tr.o),
                     !.calls = @ \o tr.calls \o (IF doBones THEN bn.calls ELSE << >>),
                     !.next = IF k = Len(SceneObjects) THEN 1 ELSE k + 1 ]
        /\ pc' = IF k = Len(SceneObjects) THEN "materials" ELSE "objects"
        /\ UNCHANGED <<meshVars, skinVars, animVars, walkVars, morph, host, materials, shader>>

\* export_materials, called by execute before export_objects
ExportMaterials ==
    LET r == export_materials(run.materialArray, run.materialToObjectDict, shader,
                              [ materials |-> materials, data |-> data, changed |-> {} ], 1)
    IN  /\ pc = "materials"
        /\ materials' = r.materials
        /\ data' = r.data
        /\ run' = [run EXCEPT !.changed = r.changed]
        /\ pc' = "meshes"
        /\ UNCHANGED <<meshVars, skinVars, animVars, walkVars, morph, files, host, shader, scene>>

\* export_objects: do_export_mesh of the next entry of meshArray
DoExportMesh ==
    LET k == run.next
        r == do_export_mesh(option_mesh_per_file, run.meshArray[k], data, files, host, morph)
    IN  /\ pc = "meshes"
        /\ data' = r.data
        /\ files' = r.files
        /\ morph' = r.morph
        /\ run' = [run EXCEPT !.checks = Append(@, r.call),
                              !.next = IF k = Len(run.meshArray) THEN 1 ELSE k + 1]
        /\ pc' = IF k = Len(run.meshArray) THEN "finish" ELSE "meshes"
        /\ UNCHANGED <<meshVars, skinVars, animVars, walkVars, host, materials, shader, scene>>

\* the end of execute: the frame is set back only if restoreFrame was raised,
\* the slots get their materials back and the created copies are removed
ExecuteEnd ==
    /\ pc = "finish"
    /\ scene' = IF run.restoreFrame
                THEN frame_set(scene, run.originalFrame, run.originalSubframe)
                ELSE scene
    /\ materials' = [ m \in DOMAIN materials \ run.matvars |-> materials[m] ]
    /\ run' = [run EXCEPT !.material_slots =
                  [ k \in DOMAIN SceneObjects |-> SceneObjects[k].material_slots ]]
    /\ pc' = "done"
    /\ UNCHANGED <<meshVars, skinVars, animVars, walkVars, morph, data, files, host, shader>>

\* the user rewires a material's node tree: parse yields another layout
SetShader ==
    \E m \in MaterialNames, s \in ShaderOptions :
        /\ AtRest
        /\ s # shader[m]
        /\ shader' = [shader EXCEPT ![m] = s]
        /\ pc' = "idle" /\ run' = IdleRun
        /\ UNCHANGED <<meshVars, skinVars, animVars, walkVars, morph, data, files, host, materials, scene>>

\* current frame and subframe (in tenths) the export may be started at
InitialFrames == { <<1, 0>>, <<MaxFrame, 5>> }

InitExec ==
    /\ IdleMesh
    /\ IdleSkin
    /\ IdleAnim
    /\ IdleWalk
    /\ data = InitData
    /\ files = {}
    /\ host = [ d \in MeshDataNames |-> TRUE ]
    /\ morph = [ d \in MeshDataNames |-> NoShapeKeys ]
    /\ materials = [ m \in MaterialNames |-> NewMaterial ]
    /\ shader \in [ MaterialNames -> ShaderOptions ]
    /\ \E f \in InitialFrames, interpolation \in { "LINEAR", "CONSTANT" } :
          scene = [ frame_current |-> f[1], frame_subframe |-> f[2],
                    frame_start |-> 1, frame_end |-> MaxFrame,
                    action_interpolation |-> interpolation ]
    /\ pc = "idle"
    /\ run = IdleRun

NextExec ==
    \/ ExecuteBegin \/ ExportObject \/ ExportMaterials \/ DoExportMesh \/ ExecuteEnd
    \/ SetShader \/ DeleteArtifact \/ SetHost

SpecExec == InitExec /\ [][NextExec]_vars

\* ------------------------------------------------------------------------
\* Claims about one execute run
\* ------------------------------------------------------------------------

Running == run # IdleRun /\ pc # "idle"

\* the data-blocks of the exported objects that use, in this run, a material
\* whose derived flags differed from its stored flags
InvalidatedData ==
    { SceneObjects[k].data :
        k \in { j \in DOMAIN SceneObjects :
                  \E m \in run.changed : m \in Range(VariantSlots[j]) } }

Checked(d) == \E k \in DOMAIN run.checks : run.checks[k].data = d

\* C9 as stated: the flag of every data-block using a changed material is
\* cleared before any cache check of the run, so each of these meshes is
\* regenerated in the run.
C9_MaterialChangeRegenerates ==
    Running =>
        /\ pc \in { "objects", "materials" } => run.checks = << >>
        /\ \A d \in InvalidatedData :
              /\ (pc = "meshes" /\ ~Checked(d)) => ~data[d].mesh_cached
              /\ \A k \in DOMAIN run.checks :
                    run.checks[k].data = d =>
                        /\ ~run.checks[k].before.mesh_cached
                        /\ run.checks[k].outcome = "written"

\* C9 amended: the flag of every data-block using a changed material is
\* cleared before any cache check of the run, so none of these meshes is
\* skipped at its cache check; each is regenerated if the host yields a mesh
\* for it, and otherwise its export ends with a warning.
C9_MaterialChangeForcesCheckToFail ==
    Running =>
        /\ pc \in { "objects", "materials" } => run.checks = << >>
        /\ \A d \in InvalidatedData :
              /\ (pc = "meshes" /\ ~Checked(d)) => ~data[d].mesh_cached
              /\ \A k \in DOMAIN run.checks :
                    run.checks[k].data = d =>
                        /\ ~run.checks[k].before.mesh_cached
                        /\ run.checks[k].outcome =
                              (IF run.checks[k].yields THEN "written" ELSE "warned")

\* a run in which a material shared by two objects had changed: both meshes
\* had an artifact and were regenerated, a mesh of another material was skipped
C9_Witness ==
    /\ pc = "done"
    /\ run.changed = { "MatB" }
    /\ \A d \in { "TextCurve", "BlobMeta" } :
          \E k \in DOMAIN run.checks :
             /\ run.checks[k].data = d
             /\ run.checks[k].exists
             /\ run.checks[k].outcome = "written"
    /\ \E k \in DOMAIN run.checks :
          run.checks[k].data = "CubeMesh" /\ run.checks[k].outcome = "skipped"

\* C10: every call of export_object_sampled_animation and of
\* export_bone_sampled_animation leaves the scene's frame and subframe as they
\* were at its entry, and the scene frame after execute equals the frame
\* before it.
C10_FrameRestored ==
    Running =>
        /\ \A k \in DOMAIN run.calls : run.calls[k].exit = run.calls[k].entry
        /\ <<scene.frame_current, scene.frame_subframe>>
              = <<run.originalFrame, run.originalSubframe>>

\* a finished run, started between two frames, that sampled an animated and a
\* still object and an animated and a still bone
C10_Witness ==
    /\ pc = "done"
    /\ scene.frame_subframe # 0
    /\ \A fn \in { "export_object_sampled_animation", "export_bone_sampled_animation" } :
          \A moving \in BOOLEAN :
             \E k \in DOMAIN run.calls :
                run.calls[k].fn = fn /\ run.calls[k].animated = moving

\* ------------------------------------------------------------------------
\* The curve classifier on one f-curve
\* ------------------------------------------------------------------------

MaxKeys == 3

\* keyframe k sits on frame 2k; its handles lie one frame to the left and to
\* the right, and deviate from the key's value by dl and dr
KeyVariants ==
    { [ interpolation |-> m, value |-> v, handles |-> h ] :
        m \in { "LINEAR", "BEZIER", "CONSTANT" },
        v \in { 0, 1, 2 },
        h \in { <<0, 0>>, <<0 - 2, 2>> } }

Keyframe(k, kv) ==
    [ interpolation |-> kv.interpolation,
      co            |-> << 2 * k, kv.value >>,
      handle_left   |-> << 2 * k - 1, kv.value + kv.handles[1] >>,
      handle_right  |-> << 2 * k + 1, kv.value + kv.handles[2] >> ]

\* f-curves with 0 .. MaxKeys keyframes
CurveInputs ==
    { [ keyframe_points |-> [ k \in 1 .. n |-> Keyframe(k, kvs[k]) ] ] :
        kvs \in [ 1 .. MaxKeys -> KeyVariants ], n \in 0 .. MaxKeys }

ClassifyAnimationCurve ==
    /\ fcurve # NotRun
    /\ curve_out' = [ fn   |-> "classify_animation_curve",
                      kind |-> classify_animation_curve(fcurve) ]
    /\ UNCHANGED <<meshVars, skinVars, execVars, walkVars, fcurve, anim_in, anim_out>>

\* export_object_transform asks for the presence of a curve it classified as
\* not Sampled
AnimationPresent ==
    LET kind == classify_animation_curve(fcurve)
    IN  /\ fcurve # NotRun
        /\ kind # AnimationTypeSampled
        /\ curve_out' = [ fn      |-> "animation_present",
                          kind    |-> kind,
                          present |-> animation_present(fcurve, kind) ]
        /\ UNCHANGED <<meshVars, skinVars, execVars, walkVars, fcurve, anim_in, anim_out>>

\* export_object_transform exports the track of a curve it found present
ExportAnimationTrack ==
    LET kind == classify_animation_curve(fcurve)
    IN  \E beginFrame \in 0 .. 1 :
           /\ fcurve # NotRun
           /\ kind # AnimationTypeSampled
           /\ animation_present(fcurve, kind)
           /\ curve_out' = [ fn         |-> "export_animation_track",
                             kind       |-> kind,
                             beginFrame |-> beginFrame,
                             track      |-> export_animation_track(fcurve, kind, "xloc",
                                                                   beginFrame) ]
           /\ UNCHANGED <<meshVars, skinVars, execVars, walkVars, fcurve, anim_in, anim_out>>

InitCurve ==
    /\ fcurve \in CurveInputs
    /\ curve_out = NotRun
    /\ anim_in = NotRun
    /\ anim_out = NotRun
    /\ IdleMesh
    /\ IdleSkin
    /\ IdleExec
    /\ IdleWalk

NextCurve == ClassifyAnimationCurve \/ AnimationPresent \/ ExportAnimationTrack

SpecCurve == InitCurve /\ [][NextCurve]_vars

\* ------------------------------------------------------------------------
\* Claims about the curve classifier
\* ------------------------------------------------------------------------

\* the number of keys of the curve that use interpolation mode m
ModeCount(m) ==
    Cardinality({ k \in DOMAIN fcurve.keyframe_points :
                    fcurve.keyframe_points[k].interpolation = m })

\* C11: for every sequence of interpolation modes, the empty one included,
\* classify_animation_curve returns Sampled if a key uses a mode other than
\* linear or Bezier, otherwise Linear if there is no Bezier key, otherwise
\* Bezier if there is no linear key, otherwise (mixed) Sampled
C11_ClassificationExhaustive ==
    (curve_out # NotRun /\ curve_out.fn = "classify_animation_curve") =>
        LET n      == Len(fcurve.keyframe_points)
            linear == ModeCount("LINEAR")
            bezier == ModeCount("BEZIER")
        IN  /\ curve_out.kind \in { AnimationTypeSampled, AnimationTypeLinear,
                                    AnimationTypeBezier }
            /\ (linear + bezier < n) => curve_out.kind = AnimationTypeSampled
            /\ (linear + bezier = n /\ bezier = 0) => curve_out.kind = AnimationTypeLinear
            /\ (linear + bezier = n /\ bezier > 0 /\ linear = 0)
                  => curve_out.kind = AnimationTypeBezier
            /\ (linear + bezier = n /\ bezier > 0 /\ linear > 0)
                  => curve_out.kind = AnimationTypeSampled

\* a curve with linear and Bezier keys only, and both, was classified Sampled
C11_Witness ==
    /\ curve_out # NotRun
    /\ curve_out.fn = "classify_animation_curve"
    /\ ModeCount("LINEAR") > 0
    /\ ModeCount("BEZIER") > 0
    /\ ModeCount("CONSTANT") = 0
    /\ curve_out.kind = AnimationTypeSampled

\* some pair of successive keyframe values differs by more than the epsilon
SuccessiveKeysDiffer ==
    LET keys == fcurve.keyframe_points
    IN  \E i \in 1 .. Len(keys) - 1 :
           fabs(keys[i + 1].co[2] - keys[i].co[2]) > ExportEpsilon

\* some handle value deviates from its key's value by more than the epsilon
HandleDeviates ==
    LET keys == fcurve.keyframe_points
    IN  \E i \in DOMAIN keys :
           \/ fabs(keys[i].handle_left[2] - keys[i].co[2]) > ExportEpsilon
           \/ fabs(keys[i].handle_right[2] - keys[i].co[2]) > ExportEpsilon

\* C12: animation_present reports a Linear curve as animated iff some pair of
\* successive keyframe values differs by more than 1e-6, and a Bezier curve
\* iff that holds or some handle deviates from its key's value by more than
\* 1e-6
C12_PresenceTest ==
    (curve_out # NotRun /\ curve_out.fn = "animation_present") =>
        /\ curve_out.kind = AnimationTypeLinear =>
              (curve_out.present <=> SuccessiveKeysDiffer)
        /\ curve_out.kind = AnimationTypeBezier =>
              (curve_out.present <=> (SuccessiveKeysDiffer \/ HandleDeviates))

\* some keyframe value differs from the first key's value by more than the
\* epsilon
KeysDifferFromFirst ==
    LET keys == fcurve.keyframe_points
    IN  \E i \in DOMAIN keys :
           \/ keys[i].co[2] - keys[1].co[2] > ExportEpsilon
           \/ keys[1].co[2] - keys[i].co[2] > ExportEpsilon

\* C12 (amended): animation_present reports a Linear curve as animated iff
\* some keyframe value differs from the value of the first keyframe by more
\* than 1e-6, and a Bezier curve iff that holds or some handle deviates from
\* its key's value by more than 1e-6
C12_PresenceTestAgainstFirstKey ==
    (curve_out # NotRun /\ curve_out.fn = "animation_present") =>
        /\ curve_out.kind = AnimationTypeLinear =>
              (curve_out.present <=> KeysDifferFromFirst)
        /\ curve_out.kind = AnimationTypeBezier =>
              (curve_out.present <=> (KeysDifferFromFirst \/ HandleDeviates))

\* a Linear curve whose successive keys stay within the epsilon of each other
\* while the last key is further than that from the first was reported as
\* animated
C12_Witness ==
    /\ curve_out # NotRun
    /\ curve_out.fn = "animation_present"
    /\ curve_out.kind = AnimationTypeLinear
    /\ ~SuccessiveKeysDiffer
    /\ KeysDifferFromFirst
    /\ curve_out.present

\* C15: the track of a Bezier curve carries the key times relative to the
\* first timeline frame, the key values, and control arrays with one entry
\* per key whose 'minus' arrays hold the left handles and whose 'plus' arrays
\* hold the right handles, for times and values alike; a Linear track
\* carries only times and values
C15_BezierControlPoints ==
    (curve_out # NotRun /\ curve_out.fn = "export_animation_track") =>
        LET keys  == fcurve.keyframe_points
            track == curve_out.track
            begin == curve_out.beginFrame
        IN  /\ track.times = [ i \in DOMAIN keys |-> keys[i].co[1] - begin ]
            /\ track.values = [ i \in DOMAIN keys |-> keys[i].co[2] ]
            /\ curve_out.kind = AnimationTypeLinear =>
                  DOMAIN track = { "target", "times", "values" }
            /\ curve_out.kind = AnimationTypeBezier =>
                  /\ track.times_control_minus.values =
                        [ i \in DOMAIN keys |-> keys[i].handle_left[1] - begin ]
                  /\ track.times_control_plus.values =
                        [ i \in DOMAIN keys |-> keys[i].handle_right[1] - begin ]
                  /\ track.values_control_minus =
                        [ i \in DOMAIN keys |-> keys[i].handle_left[2] ]
                  /\ track.values_control_plus =
                        [ i \in DOMAIN keys |-> keys[i].handle_right[2] ]

\* ------------------------------------------------------------------------
\* The transform export of one object with an action
\* ------------------------------------------------------------------------

MaxCurves == 2

\* keyframe lists of the f-curves of an action: linear and moving, Bezier
\* and constant with slanted handles, mixed linear and Bezier, stepped
KeyLists ==
    LET L(v) == [ interpolation |-> "LINEAR",   value |-> v, handles |-> <<0, 0>> ]
        B(v) == [ interpolation |-> "BEZIER",   value |-> v, handles |-> <<0 - 2, 2>> ]
        S(v) == [ interpolation |-> "CONSTANT", value |-> v, handles |-> <<0, 0>> ]
    IN  { << Keyframe(1, L(0)), Keyframe(2, L(2)) >>,
          << Keyframe(1, L(0)), Keyframe(2, L(0)) >>,
          << Keyframe(1, B(1)), Keyframe(2, B(1)) >>,
          << Keyframe(1, L(0)), Keyframe(2, B(2)) >>,
          << Keyframe(1, S(0)), Keyframe(2, S(2)) >> }

\* what an f-curve of an object's action can drive
CurveTargets ==
    { << "location", 0 >>, << "location", 1 >>, << "rotation_euler", 2 >>,
      << "delta_scale", 0 >>, << "rotation_quaternion", 0 >>, << "hide", 0 >> }

ActionCurves ==
    { [ data_path |-> t[1], array_index |-> t[2], keyframe_points |-> keys ] :
        t \in CurveTargets, keys \in KeyLists }

\* objects with an action of 0 .. MaxCurves f-curves; "animated" tells
\* whether the object's matrix_local changes in time
ObjectInputs ==
    { [ name |-> "Cube", rotation_mode |-> mode, animated |-> moving,
        fcurves |-> [ k \in 1 .. n |-> cs[k] ],
        action_frame_range |-> << 1, 4 >>,
        location |-> << 0, 0, 3 * One >>, delta_location |-> << 0, 0, 0 >>,
        rotation_euler |-> << 0, 0, 0 >>, delta_rotation_euler |-> << 0, 0, 0 >>,
        scale |-> << One, One, One >>, delta_scale |-> << One, One, One >> ] :
        mode \in { "XYZ", "QUATERNION", "AXIS_ANGLE" },
        moving \in BOOLEAN,
        cs \in [ 1 .. MaxCurves -> ActionCurves ],
        n \in 0 .. MaxCurves }

ExportObjectTransform ==
    LET r == export_object_transform(anim_in, scene, scene.frame_start, scene.frame_end)
    IN  /\ anim_in # NotRun
        /\ anim_out' = r.o
        /\ scene' = r.scene
        /\ UNCHANGED <<meshVars, skinVars, walkVars, fcurve, curve_out, anim_in,
                       data, files, host, morph, materials, shader, pc, run>>

InitAnim ==
    /\ anim_in \in ObjectInputs
    /\ anim_out = NotRun
    /\ fcurve = NotRun
    /\ curve_out = NotRun
    /\ \E f \in InitialFrames :
          scene = [ frame_current |-> f[1], frame_subframe |-> f[2],
                    frame_start |-> 1, frame_end |-> MaxFrame ]
    /\ data = <<>> /\ files = {} /\ host = <<>> /\ materials = <<>> /\ morph = <<>>
    /\ shader = <<>> /\ pc = "idle" /\ run = <<>>
    /\ IdleMesh
    /\ IdleSkin
    /\ IdleWalk

NextAnim == ExportObjectTransform

SpecAnim == InitAnim /\ [][NextAnim]_vars

\* ------------------------------------------------------------------------
\* Claims about the transform export
\* ------------------------------------------------------------------------

\* the 18 component channel names
ChannelNames ==
    UNION { Range(ComponentGroups[g].names) : g \in DOMAIN ComponentGroups }

\* the targets of the animation tracks of the exported object
TrackTargets ==
    IF anim_out.animation = NoAnimation THEN {}
    ELSE { anim_out.animation.tracks[k].target : k \in DOMAIN anim_out.animation.tracks }

\* the object was exported by matrix sampling
MatrixSampled ==
    /\ "target" \in DOMAIN anim_out.transform
    /\ anim_out.transform.target = "transform"
    /\ "animation_transforms" \notin DOMAIN anim_out
    /\ TrackTargets \subseteq { "transform" }

\* C13: an object whose rotation mode is quaternion or axis-angle, or one of
\* whose curves is classified Sampled, is exported by matrix sampling: no
\* animation_transforms, no component tracks, any track targets 'transform';
\* a component-wise export has only tracks targeting the 18 component
\* channels, and the two kinds are never mixed on one object
C13_SampledOrComponents ==
    anim_out # NotRun =>
        /\ ( \/ anim_in.rotation_mode \in { "QUATERNION", "AXIS_ANGLE" }
             \/ \E k \in DOMAIN anim_in.fcurves :
                   classify_animation_curve(anim_in.fcurves[k]) = AnimationTypeSampled )
              => MatrixSampled
        /\ "animation_transforms" \in DOMAIN anim_out =>
              /\ TrackTargets # {}
              /\ TrackTargets \subseteq ChannelNames
              /\ "target" \notin DOMAIN anim_out.transform
        /\ ("transform" \in TrackTargets) => MatrixSampled

\* an object in Euler mode with an animated component curve followed by a
\* stepped curve was exported by matrix sampling, with a sampled track
C13_Witness ==
    /\ anim_out # NotRun
    /\ anim_in.rotation_mode = "XYZ"
    /\ Len(anim_in.fcurves) = 2
    /\ classify_animation_curve(anim_in.fcurves[1]) = AnimationTypeLinear
    /\ anim_in.fcurves[1].data_path = "location"
    /\ animation_keys_different(anim_in.fcurves[1])
    /\ classify_animation_curve(anim_in.fcurves[2]) = AnimationTypeSampled
    /\ MatrixSampled
    /\ TrackTargets = { "transform" }

\* C14: a sampled track has uniformly spaced times, entry k being k times
\* the frame duration for every frame range, and holds one time and one
\* matrix per frame from the first through the last frame of the range
C14_SampledTrackUniform ==
    (anim_out # NotRun /\ "transform" \in TrackTargets) =>
        LET track  == anim_out.animation.tracks[1]
            frames == scene.frame_end - scene.frame_start + 1
        IN  /\ Len(track.times) = frames
            /\ Len(track.values) = frames
            /\ \A k \in DOMAIN track.times : track.times[k] = k - 1

\* ------------------------------------------------------------------------
\* The scene graph walker (process_bobject, export_object, export_bone)
\* ------------------------------------------------------------------------

NodeTypeNode == 0
NodeTypeBone == 1
NodeTypeMesh == 2
NodeTypeLamp == 3
NodeTypeCamera == 4
NodeTypeSpeaker == 5

structIdentifier ==
    << "object", "bone_object", "mesh_object", "lamp_object", "camera_object",
       "speaker_object", "decal_object" >>

\* scene.objects of the walked scene: an armature (with the bones RigBones)
\* carrying an empty parented to its bone "Hand", a point lamp with omni
\* shadows and no cubemap, a mesh with a camera as its child, a speaker, and
\* a second camera
WalkObjects ==
    << [ name |-> "Rig", type |-> "ARMATURE", data |-> "RigData", parent |-> "",
         parent_type |-> "OBJECT", parent_bone |-> "", children |-> << "Sword" >>,
         my_traitlist |-> << >>, omni |-> FALSE, animated |-> FALSE ],
       [ name |-> "Sword", type |-> "EMPTY", data |-> "", parent |-> "Rig",
         parent_type |-> "BONE", parent_bone |-> "Hand", children |-> << >>,
         my_traitlist |-> << "Spin" >>, omni |-> FALSE, animated |-> TRUE ],
       [ name |-> "Lamp", type |-> "LAMP", data |-> "Point", parent |-> "",
         parent_type |-> "OBJECT", parent_bone |-> "", children |-> << >>,
         my_traitlist |-> << >>, omni |-> TRUE, animated |-> FALSE ],
       [ name |-> "Cube", type |-> "MESH", data |-> "CubeMesh", parent |-> "",
         parent_type |-> "OBJECT", parent_bone |-> "", children |-> << "Cam" >>,
         my_traitlist |-> << "Door" >>, omni |-> FALSE, animated |-> FALSE ],
       [ name |-> "Cam", type |-> "CAMERA", data |-> "CamData", parent |-> "Cube",
         parent_type |-> "OBJECT", parent_bone |-> "", children |-> << >>,
         my_traitlist |-> << >>, omni |-> FALSE, animated |-> FALSE ],
       [ name |-> "Horn", type |-> "SPEAKER", data |-> "HornData", parent |-> "",
         parent_type |-> "OBJECT", parent_bone |-> "", children |-> << >>,
         my_traitlist |-> << >>, omni |-> FALSE, animated |-> FALSE ],
       [ name |-> "Eye", type |-> "CAMERA", data |-> "EyeData", parent |-> "",
         parent_type |-> "OBJECT", parent_bone |-> "", children |-> << >>,
         my_traitlist |-> << >>, omni |-> FALSE, animated |-> FALSE ] >>

\* the object of that name, with the fields export_object_transform reads
\* (Euler mode; no action but for the armature, whose actions both have the
\* f-curves BoneCurves) and the flags the scene holds for it
WalkObject(name, t) ==
    LET k == CHOOSE k \in DOMAIN WalkObjects : WalkObjects[k].name = name
    IN  [ rotation_mode |-> "XYZ",
          fcurves |-> IF WalkObjects[k].type = "ARMATURE"
                      THEN BoneCurves(t.scene.action_interpolation)
                      ELSE << >>,
          game_export |-> t.game_export[name],
          spawn |-> t.spawn[name],
          edit_actions_prop |-> (name = "Rig" /\ t.edit_actions_prop),
          instanced_children |-> (name = "Cube" /\ t.instanced_children) ]
        @@ WalkObjects[k]

\* every mesh of the walked scene has polygons
get_bobject_type(bobject) ==
    IF bobject.type \in { "MESH", "FONT", "META" } THEN NodeTypeMesh
    ELSE IF bobject.type = "LAMP" THEN NodeTypeLamp
    ELSE IF bobject.type = "CAMERA" THEN NodeTypeCamera
    ELSE IF bobject.type = "SPEAKER" THEN NodeTypeSpeaker
    ELSE NodeTypeNode

\* no object is hidden from rendering and none has an ocean modifier
preprocess_object(bobject) == bobject.game_export

RECURSIVE process_bobject(_, _, _)
\* boneParentArray after process_bobject of the object (export_all_flag is
\* set by preprocess): bone name -> the objects parented to it
process_bobject(name, boneParentArray, t) ==
    LET bobject == WalkObject(name, t)
        own == IF bobject.parent_type = "BONE"
               THEN IF bobject.parent_bone \in DOMAIN boneParentArray
                    THEN [boneParentArray EXCEPT ![bobject.parent_bone] = Append(@, name)]
                    ELSE boneParentArray @@ (bobject.parent_bone :> << name >>)
               ELSE boneParentArray
        RECURSIVE Subs(_, _)
        Subs(k, bpa) == IF k > Len(bobject.children) THEN bpa
                        ELSE Subs(k + 1, process_bobject(bobject.children[k], bpa, t))
    IN  IF bobject.type # "MESH" \/ bobject.instanced_children = FALSE
        THEN Subs(1, own)
        ELSE own

\* o[key] = value
SetKey(o, key, value) == (key :> value) @@ o

\* the five child lamps of make_fake_omni_lamps (rotations only, so the
\* translation entry the model keeps is 0); they get no 'traits', and the
\* lamp's own matrix keeps its translation
make_fake_omni_lamps(o) ==
    LET child_lamps == [ i \in 1 .. 5 |->
            [ generated |-> [ name      |-> << o.name, i - 1 >>,
                              data_ref  |-> o.data_ref,
                              type      |-> "lamp_object",
                              transform |-> [ values |-> 0 ] ] ] ]
    IN  SetKey(o, "children", child_lamps)

\* the second action of my_actiontraitlist, next to RigAction; RigAction is
\* also the action start_action_name_prop names
WaveAction == [ name |-> "Wave", frame_range |-> <<1, MaxFrame>> ]

NoPose == [ none |-> TRUE ]
NoParent == [ none |-> TRUE ]

\* a place in a children list or in output['objects'] that holds the dict of
\* a scene object (the dict itself lives in objectToArmObjectDict)
Ref(name) == [ ref |-> name ]

RECURSIVE Resolve(_, _)
\* what write_arm serialises for a list of nodes: every reference replaced
\* by the dict it points to as that dict is at the time of writing
Resolve(nodes, arm) ==
    [ i \in DOMAIN nodes |->
        LET n == nodes[i]
            d == IF "ref" \in DOMAIN n THEN arm[n.ref]
                 ELSE IF "generated" \in DOMAIN n THEN n.generated
                 ELSE n
        IN  IF "children" \in DOMAIN d
            THEN [d EXCEPT !.children = Resolve(@, arm)]
            ELSE d ]

\* indices of the bones whose parent has the given name ("" for root bones)
BoneChildren(parent) ==
    SelectSeq([ k \in DOMAIN RigBones |-> k ], LAMBDA k : RigBones[k].parent = parent)

\* the walk hands the objects and bones of one level to each other
RECURSIVE export_object(_, _, _, _, _)
RECURSIVE export_bone(_, _, _, _)
RECURSIVE ExportBoneChildren(_, _, _, _, _, _)
RECURSIVE ExportBoneObjects(_, _, _, _, _, _)
RECURSIVE ExportRootBones(_, _, _, _, _)
RECURSIVE ExportActions(_, _, _, _, _)
RECURSIVE ExportChildren(_, _, _, _)

\* export_bone for bone k of the armature: the bone's node, its child bones,
\* then the objects parented to the bone, each through export_object with
\* the bone's node as its parent
export_bone(k, action, W, t) ==
    LET bone      == RigBones[k]
        animation == bone.curves \/ sample_animation_flag
        poseBone  == IF ~ t.use_relative_parent[bone.name] THEN bone ELSE NoPose
    IN  Then(export_bone_sampled_animation(bone, W.scene, action,
                                           W.scene.frame_start, W.scene.frame_end),
             LAMBDA r :
        Then([ type      |-> structIdentifier[NodeTypeBone + 1],
               name      |-> bone.name,
               transform |-> [ values |-> write_matrix(BoneSource(bone), W.scene) ],
               animation |-> IF animation THEN r.animation ELSE NoAnimation,
               children  |-> << >> ],
             LAMBDA o1 :
        Then([W EXCEPT !.scene = IF animation THEN r.scene ELSE @],
             LAMBDA W1 :
        Then(ExportBoneChildren(BoneChildren(bone.name), 1, action, o1, W1, t),
             LAMBDA subs :
        ExportBoneObjects(IF bone.name \in DOMAIN subs.W.boneParentArray
                          THEN subs.W.boneParentArray[bone.name]
                          ELSE << >>,
                          1, poseBone, subs.o, subs.W, t)))))

\* for subbobject in bone.children: export_bone, o['children'].append(so)
ExportBoneChildren(kids, i, action, o, W, t) ==
    IF i > Len(kids) THEN [ W |-> W, o |-> o ]
    ELSE Then(export_bone(kids[i], action, W, t),
              LAMBDA r :
         Then([o EXCEPT !.children = Append(@, r.o)],
              LAMBDA o1 :
         ExportBoneChildren(kids, i + 1, action, o1, r.W, t)))

\* for subbobject in boneSubbobjectArray: export_object(..., poseBone, o)
ExportBoneObjects(bound, i, poseBone, o, W, t) ==
    IF i > Len(bound) THEN [ W |-> W, o |-> o ]
    ELSE Then(export_object(bound[i], poseBone, [ bone |-> o.name ], W, t),
              LAMBDA W1 :
         Then(IF preprocess_object(WalkObject(bound[i], t))
              THEN [o EXCEPT !.children = Append(@, Ref(bound[i]))]
              ELSE o,
              LAMBDA o1 :
         ExportBoneObjects(bound, i + 1, poseBone, o1, W1, t)))

\* for bone in bdata.bones: if not bone.parent: export_bone, bones.append
ExportRootBones(roots, i, action, W, t) ==
    IF i > Len(roots) THEN [ W |-> W, bones |-> << >> ]
    ELSE Then(export_bone(roots[i], action, W, t),
              LAMBDA r :
         Then(ExportRootBones(roots, i + 1, action, r.W, t),
              LAMBDA rest :
         [ W |-> rest.W, bones |-> << r.o >> \o rest.bones ]))

\* for action in export_actions: the action becomes the armature's current
\* action (and stays it after the loop); the bones are exported and their
\* file is written when the armature is not cached or the file is missing
ExportActions(armature, export_actions, i, W, t) ==
    IF i > Len(export_actions) THEN W
    ELSE LET action == export_actions[i]
             fp     == get_meshes_file_path("bones", <<armature.data, action.name>>)
         IN  Then([W EXCEPT !.action = action],
                  LAMBDA Wa :
             IF Wa.data_cached = FALSE \/ fp \notin Wa.files
             THEN Then(ExportRootBones(BoneChildren(""), 1, action, Wa, t),
                       LAMBDA r :
                  Then([r.W EXCEPT
                          !.files = @ \cup { fp },
                          !.written = Append(@, [ fp      |-> fp,
                                                  objects |-> Resolve(r.bones, r.W.arm) ])],
                       LAMBDA W1 :
                  ExportActions(armature, export_actions, i + 1, W1, t)))
             ELSE ExportActions(armature, export_actions, i + 1, Wa, t))

\* export_object: the object's dict is filled, attached to its parent (or to
\* output['objects']), given its traits, and its children are exported
export_object(name, poseBone, parento, W, t) ==
    LET bobject == WalkObject(name, t)
        type    == get_bobject_type(bobject)
        objname == bobject.data
        o0      == SetKey(SetKey(W.arm[name], "type", structIdentifier[type + 1]),
                          "name", name)
        \* every object is on an active layer
        o1      == IF bobject.spawn = FALSE THEN SetKey(o0, "spawn", FALSE) ELSE o0
        \* a mesh without material slots gets the default material
        o2      == IF type = NodeTypeMesh
                   THEN SetKey(SetKey(o1, "data_ref", <<"mesh", objname>>),
                               "material_refs", << "armdefault" >>)
                   ELSE IF type \in { NodeTypeLamp, NodeTypeCamera, NodeTypeSpeaker }
                   THEN SetKey(o1, "data_ref", objname)
                   ELSE o1
        \* if poseBone: o['transform']['values'] = poseBone.matrix.inverted()
        o3      == IF poseBone # NoPose
                   THEN SetKey(o2, "transform",
                               [ values |-> 0 - MatrixAt(poseBone.animated, W.scene) ])
                   ELSE o2
    IN  IF preprocess_object(bobject) = FALSE THEN W
        ELSE
        \* export_object_transform assigns o['transform'] anew
        Then(export_object_transform(bobject, W.scene,
                                     W.scene.frame_start, W.scene.frame_end),
             LAMBDA tr :
        Then(tr.o @@ o3,
             LAMBDA o4 :
        Then(IF type = NodeTypeLamp /\ bobject.omni THEN make_fake_omni_lamps(o4) ELSE o4,
             LAMBDA o5 :
        \* the reference start action: the armature's current action, or the
        \* one start_action_name_prop names
        Then(IF bobject.edit_actions_prop THEN RigAction ELSE W.action,
             LAMBDA action :
        Then(IF bobject.type = "ARMATURE"
             THEN SetKey(o5, "bones_ref", <<"bones", bobject.data, action.name>>)
             ELSE o5,
             LAMBDA o6 :
        Then([W EXCEPT
                !.meshArray    = IF type = NodeTypeMesh THEN AppendNew(@, objname) ELSE @,
                !.defaultMaterialObjects =
                                 IF type = NodeTypeMesh THEN Append(@, name) ELSE @,
                !.lampArray    = IF type = NodeTypeLamp THEN AppendNew(@, objname) ELSE @,
                !.cameraArray  = IF type = NodeTypeCamera THEN AppendNew(@, objname) ELSE @,
                !.camera_spawned =
                    IF type = NodeTypeCamera
                    THEN ~ ("spawn" \in DOMAIN o6 /\ o6.spawn = FALSE)
                    ELSE @,
                !.speakerArray = IF type = NodeTypeSpeaker THEN AppendNew(@, objname) ELSE @,
                !.scene        = tr.scene,
                !.arm[name]    = o6],
             LAMBDA W2 :
        Then(IF bobject.type = "ARMATURE"
             THEN [ExportActions(bobject,
                                 IF t.edit_actions THEN << RigAction, WaveAction >>
                                 ELSE << action >>,
                                 1, W2, t) EXCEPT !.data_cached = TRUE]
             ELSE W2,
             LAMBDA W3 :
        \* output['objects'].append(o) or parento['children'].append(o)
        Then([W3 EXCEPT
                !.attached = Append(@, [ node |-> name, parent |-> parento ]),
                !.objects  = IF parento = NoParent THEN Append(@, Ref(name)) ELSE @,
                !.arm      = IF "object" \in DOMAIN parento
                             THEN [@ EXCEPT ![parento.object].children = Append(@, Ref(name))]
                             ELSE @],
             LAMBDA W4 :
        \* post_export_object appends a trait per entry of my_traitlist
        Then([W4.arm[name] EXCEPT !.traits = @ \o bobject.my_traitlist],
             LAMBDA o7 :
        Then([W4 EXCEPT !.arm[name] = IF Len(bobject.children) > 0
                                      THEN SetKey(o7, "children", << >>)
                                      ELSE o7],
             LAMBDA W5 :
        IF bobject.type # "MESH" \/ bobject.instanced_children = FALSE
        THEN ExportChildren(bobject, 1, W5, t)
        ELSE W5))))))))))

\* for subbobject in bobject.children: those not parented to a bone
ExportChildren(bobject, i, W, t) ==
    IF i > Len(bobject.children) THEN W
    ELSE IF WalkObject(bobject.children[i], t).parent_type # "BONE"
    THEN Then(export_object(bobject.children[i], NoPose, [ object |-> bobject.name ], W, t),
              LAMBDA W1 : ExportChildren(bobject, i + 1, W1, t))
    ELSE ExportChildren(bobject, i + 1, W, t)

\* names of scene.objects that have no parent, in scene order
RootObjects ==
    LET roots == SelectSeq(WalkObjects, LAMBDA b : b.parent = "")
    IN  [ i \in DOMAIN roots |-> roots[i].name ]

RECURSIVE ProcessRoots(_, _, _)
\* for bobject in self.scene.objects: if not bobject.parent: process_bobject
ProcessRoots(i, boneParentArray, t) ==
    IF i > Len(RootObjects) THEN boneParentArray
    ELSE ProcessRoots(i + 1, process_bobject(RootObjects[i], boneParentArray, t), t)

RECURSIVE ExportRoots(_, _, _)
\* for bo in self.scene.objects: if not bo.parent: export_object(bo, scene)
ExportRoots(i, W, t) ==
    IF i > Len(RootObjects) THEN W
    ELSE Then(export_object(RootObjects[i], NoPose, NoParent, W, t),
              LAMBDA W1 : ExportRoots(i + 1, W1, t))

\* export_objects: the lamp, camera and speaker arrays are created before
\* their loops; mesh_datas is created inside the loop over meshArray (every
\* mesh goes to a file of its own, so the array stays empty)
export_objects(output, W) ==
    LET datas == ("lamp_datas" :> W.lampArray) @@ ("camera_datas" :> W.cameraArray)
                 @@ ("speaker_datas" :> W.speakerArray) @@ output
    IN  IF Len(W.meshArray) > 0
        THEN ("mesh_datas" :> << >>) @@ datas
        ELSE datas

\* one run of execute over the scene t: the document it writes, the bones
\* files it writes, and what it leaves behind in the scene
execute(t) ==
    LET names  == { WalkObjects[k].name : k \in DOMAIN WalkObjects }
        W0     == [ arm            |-> [ n \in names |-> [ traits |-> << >> ] ],
                    boneParentArray |-> ProcessRoots(1, << >>, t),
                    objects        |-> << >>,
                    attached       |-> << >>,
                    meshArray      |-> << >>,
                    lampArray      |-> << >>,
                    cameraArray    |-> << >>,
                    camera_spawned |-> FALSE,
                    speakerArray   |-> << >>,
                    defaultMaterialObjects |-> << >>,
                    written        |-> << >>,
                    scene          |-> t.scene,
                    files          |-> t.files,
                    action         |-> t.action,
                    data_cached    |-> t.data_cached ]
    IN  Then(ExportRoots(1, W0, t),
             LAMBDA W :
        [ output   |-> export_objects(
                          [ objects        |-> Resolve(W.objects, W.arm),
                            material_datas |-> IF Len(W.defaultMaterialObjects) > 0
                                               THEN << "armdefault" >> ELSE << >>,
                            particle_datas |-> << >>,
                            world_datas    |-> << "World" >>,
                            grease_pencil_datas |-> << >> ], W),
          attached |-> W.attached,
          written  |-> W.written,
          warnings |-> IF ~ W.camera_spawned
                       THEN << "No camera found in active scene layers" >>
                       ELSE << >>,
          scene    |-> W.scene,
          files    |-> W.files,
          action   |-> W.action,
          data_cached |-> W.data_cached ])

\* ------------------------------------------------------------------------
\* The walk as a state machine: execute runs over the scene, and the user
\* edits the scene between runs (the document written for the scene as it
\* was before an edit is set aside)
\* ------------------------------------------------------------------------

\* the exporter runs over the scene as it stands
Execute ==
    /\ tree # NotRun
    /\ \E r \in { execute(tree) } :
          /\ doc' = [ output |-> r.output, attached |-> r.attached, written |-> r.written,
                      warnings |-> r.warnings, tree |-> tree ]
          /\ tree' = [tree EXCEPT !.scene = r.scene, !.files = r.files,
                                  !.action = r.action,
                                  !.data_cached = r.data_cached]
    /\ UNCHANGED <<meshVars, skinVars, execVars, animVars>>

\* the user switches an object's game_export flag
SetGameExport ==
    \E n \in { "Cube", "Sword" } :
        /\ tree # NotRun
        /\ tree' = [tree EXCEPT !.game_export[n] = ~ @]
        /\ doc' = NotRun
        /\ UNCHANGED <<meshVars, skinVars, execVars, animVars>>

\* the user switches a camera's spawn flag
SetSpawn ==
    \E n \in { "Cam", "Eye" } :
        /\ tree # NotRun
        /\ tree' = [tree EXCEPT !.spawn[n] = ~ @]
        /\ doc' = NotRun
        /\ UNCHANGED <<meshVars, skinVars, execVars, animVars>>

\* the user switches a bone's use_relative_parent flag
SetRelativeParent ==
    /\ tree # NotRun
    /\ tree' = [tree EXCEPT !.use_relative_parent["Hand"] = ~ @]
    /\ doc' = NotRun
    /\ UNCHANGED <<meshVars, skinVars, execVars, animVars>>

\* the user switches the mesh's instanced_children flag
SetInstancedChildren ==
    /\ tree # NotRun
    /\ tree' = [tree EXCEPT !.instanced_children = ~ @]
    /\ doc' = NotRun
    /\ UNCHANGED <<meshVars, skinVars, execVars, animVars>>

\* the user turns the armature's edit_actions on (the two action traits are
\* exported) or off (the reference start action is exported)
SetExportActions ==
    \E e \in BOOLEAN :
        /\ tree # NotRun
        /\ e # tree.edit_actions
        /\ tree' = [tree EXCEPT !.edit_actions = e]
        /\ doc' = NotRun
        /\ UNCHANGED <<meshVars, skinVars, execVars, animVars>>

\* the armature is edited: its data_cached flag is cleared
InvalidateArmature ==
    /\ tree # NotRun
    /\ tree.data_cached
    /\ tree' = [tree EXCEPT !.data_cached = FALSE]
    /\ doc' = NotRun
    /\ UNCHANGED <<meshVars, skinVars, execVars, animVars>>

InitWalk ==
    /\ \E f \in InitialFrames, prop \in BOOLEAN, interpolation \in { "LINEAR", "CONSTANT" } :
          tree = [ game_export         |-> [ k \in { WalkObjects[j].name : j \in DOMAIN WalkObjects } |-> TRUE ],
                   spawn               |-> [ k \in { WalkObjects[j].name : j \in DOMAIN WalkObjects } |-> TRUE ],
                   use_relative_parent |-> [ b \in { RigBones[j].name : j \in DOMAIN RigBones } |-> FALSE ],
                   instanced_children  |-> FALSE,
                   edit_actions        |-> FALSE,
                   edit_actions_prop   |-> prop,
                   action              |-> RigAction,
                   data_cached         |-> FALSE,
                   files               |-> {},
                   scene               |-> [ frame_current |-> f[1], frame_subframe |-> f[2],
                                             frame_start |-> 1, frame_end |-> MaxFrame,
                                             action_interpolation |-> interpolation ] ]
    /\ doc = NotRun
    /\ IdleMesh /\ IdleSkin /\ IdleExec /\ IdleAnim

NextWalk ==
    \/ Execute
    \/ SetGameExport
    \/ SetSpawn
    \/ SetRelativeParent
    \/ SetInstancedChildren
    \/ SetExportActions
    \/ InvalidateArmature

SpecWalk == InitWalk /\ [][NextWalk]_vars

\* ------------------------------------------------------------------------
\* Properties of the walk
\* ------------------------------------------------------------------------

RECURSIVE Nodes(_)
\* every node of a list of nodes, each followed by its descendants
Nodes(nodes) ==
    IF nodes = << >> THEN << >>
    ELSE LET n == Head(nodes)
         IN  << n >> \o (IF "children" \in DOMAIN n THEN Nodes(n.children) ELSE << >>)
                     \o Nodes(Tail(nodes))

\* the nodes of the written document and of every bones file written
EmittedNodes ==
    { Nodes(doc.output.objects)[i] : i \in DOMAIN Nodes(doc.output.objects) }
    \cup UNION { { Nodes(doc.written[f].objects)[i] : i \in DOMAIN Nodes(doc.written[f].objects) }
                 : f \in DOMAIN doc.written }

RECURSIVE Qualifies(_, _)
\* the object and all its ancestors pass the export filter, and no ancestor
\* is a mesh with instanced children
Qualifies(name, t) ==
    LET b == WalkObject(name, t)
    IN  /\ preprocess_object(b)
        /\ \/ b.parent = ""
           \/ /\ Qualifies(b.parent, t)
              /\ ~ ( WalkObject(b.parent, t).type = "MESH"
                     /\ WalkObject(b.parent, t).instanced_children )

\* how many times export_object attached the object's node somewhere
TimesAttached(name) ==
    Cardinality({ i \in DOMAIN doc.attached : doc.attached[i].node = name })

\* C16: after a run of execute, every object that qualifies for export was
\* attached at exactly one place of the output and every emitted copy of its
\* node carries its traits once, objects parented to bones included
C16_EmittedExactlyOnce ==
    doc # NotRun =>
        \A k \in DOMAIN WalkObjects :
            Qualifies(WalkObjects[k].name, doc.tree) =>
                /\ TimesAttached(WalkObjects[k].name) = 1
                /\ \A n \in EmittedNodes :
                      n.name = WalkObjects[k].name => n.traits = WalkObjects[k].my_traitlist

\* the children of the node of the given bone in the bones files written
BoneNodeChildren(bone) ==
    UNION { { n.children[i] : i \in DOMAIN n.children }
            : n \in { m \in EmittedNodes : m.type = "bone_object" /\ m.name = bone } }

\* C17: an object parented to a bone is emitted under that bone's node with
\* its matrix_local, from which the bone's pose matrix is taken out when the
\* bone's relative-parent flag is not set and left in when it is set
C17_PoseInvertedOut ==
    doc # NotRun =>
        \A k \in DOMAIN WalkObjects, b \in DOMAIN RigBones :
            LET bobject == WalkObjects[k]
                bone    == RigBones[b]
                sc      == doc.tree.scene
            IN  (bobject.parent_type = "BONE" /\ bobject.parent_bone = bone.name) =>
                   /\ \A n \in EmittedNodes :
                         n.name = bobject.name => n \in BoneNodeChildren(bone.name)
                   /\ \A n \in BoneNodeChildren(bone.name) :
                         n.name = bobject.name =>
                            n.transform.values =
                               IF doc.tree.use_relative_parent[bone.name]
                               THEN MatrixAt(bobject.animated, sc)
                               ELSE MatrixAt(bobject.animated, sc) - MatrixAt(bone.animated, sc)

\* C18: every node of the written hierarchy, generated ones included, has a
\* type of the fixed set and a traits list
C18_TypeAndTraits ==
    doc # NotRun =>
        \A i \in DOMAIN Nodes(doc.output.objects) :
            LET n == Nodes(doc.output.objects)[i]
            IN  /\ "type" \in DOMAIN n
                /\ n.type \in { structIdentifier[j] : j \in DOMAIN structIdentifier }
                /\ "traits" \in DOMAIN n

\* C19: the written document has all eight top-level arrays
C19_TopLevelArrays ==
    doc # NotRun =>
        { "objects", "mesh_datas", "lamp_datas", "camera_datas", "speaker_datas",
          "material_datas", "particle_datas", "world_datas" } \subseteq DOMAIN doc.output

\* ------------------------------------------------------------------------
\* Index arrays of export_mesh_quality
\* ------------------------------------------------------------------------

\* the material index of every triangle of the mesh, a quad giving two
FaceTriangleMaterials ==
    Flatten([ f \in DOMAIN mesh.faces |->
                 [ j \in 1 .. (IF Len(mesh.faces[f].vertices) = 4 THEN 2 ELSE 1) |->
                      mesh.faces[f].material_index ] ])

\* the index triples of the triangles that have material index m, in the
\* order of the index table
TrianglesOfMaterial(m) ==
    LET picked == SelectSeq([ t \in DOMAIN quality.material_table |-> t ],
                            LAMBDA t : quality.material_table[t] = m)
    IN  Flatten([ p \in DOMAIN picked |->
                     << quality.indexTable[3 * picked[p] - 2],
                        quality.indexTable[3 * picked[p] - 1],
                        quality.indexTable[3 * picked[p]] >> ])

\* the tables have one and three entries per triangle, every index array
\* holds exactly the triangles of its material index in their order, no two
\* arrays share a material index, and every triangle's index has an array
IndexArraysPartition ==
    LET ia == quality.index_arrays
    IN  /\ quality.material_table = FaceTriangleMaterials
        /\ Len(quality.indexTable) = 3 * Len(FaceTriangleMaterials)
        /\ \A a \in DOMAIN ia : ia[a].values = TrianglesOfMaterial(ia[a].material)
        /\ \A a, b \in DOMAIN ia : ia[a].material = ia[b].material => a = b
        /\ \A t \in DOMAIN quality.material_table :
              \E a \in DOMAIN ia : ia[a].material = quality.material_table[t]

\* every index array has at least one triangle
NoEmptyIndexArray ==
    \A a \in DOMAIN quality.index_arrays :
        \E t \in DOMAIN quality.material_table :
            quality.material_table[t] = quality.index_arrays[a].material

\* C20 as stated: the index arrays of export_mesh_quality partition the
\* triangles by material index, and an array is emitted only for a material
\* index that has a triangle
C20_IndexArraysByMaterial ==
    quality # NotRun => IndexArraysPartition /\ NoEmptyIndexArray

\* C20: the index arrays of export_mesh_quality partition the triangles by
\* material index; an array is emitted only for a material index that has a
\* triangle, except that a mesh without triangles gets one empty array
\* tagged with material index 0
C20_IndexArraysByMaterialOrEmptyMesh ==
    quality # NotRun =>
        /\ IndexArraysPartition
        /\ IF Len(quality.material_table) > 0
           THEN NoEmptyIndexArray
           ELSE quality.index_arrays = << [size |-> 3, values |-> << >>, material |-> 0] >>

\* a quad between two triangles of another material: two arrays, the one of
\* the outer material holding its first and its last triangle in that order
C20_Witness ==
    /\ quality # NotRun
    /\ Len(mesh.faces) = 3
    /\ Len(quality.material_table) = 4
    /\ quality.material_table[1] = quality.material_table[4]
    /\ quality.material_table[2] # quality.material_table[1]
    /\ Len(quality.index_arrays) = 2

\* ------------------------------------------------------------------------
\* Layout of the skin arrays
\* ------------------------------------------------------------------------

RECURSIVE SumOf(_)
SumOf(counts) == IF counts = << >> THEN 0 ELSE Head(counts) + SumOf(Tail(counts))

\* C21: bone_count_array has one entry per welded vertex, in their order;
\* bone_index_array and bone_weight_array are as long as the sum of the
\* counts, and the entries of vertex k (bones that influence it) occupy the
\* slice that starts at the sum of the counts before k
C21_ParallelSkinArrays ==
    skin_out # NotRun =>
        /\ Len(skin_out.bone_count_array) = Len(skin_in.export_vertex_array)
        /\ Len(skin_out.bone_index_array) = SumOf(skin_out.bone_count_array)
        /\ Len(skin_out.bone_weight_array) = SumOf(skin_out.bone_count_array)
        /\ \A k \in DOMAIN skin_out.bone_count_array :
              LET all == Contributing(skin_in, k)
              IN  /\ skin_out.bone_count_array[k] = IF Len(all) > 4 THEN 4 ELSE Len(all)
                  /\ \A p \in Slice(skin_out, k) :
                        \E a \in DOMAIN all : all[a].index = skin_out.bone_index_array[p]

\* two vertices with influences, the second with more than four of them
C21_Witness ==
    /\ skin_out # NotRun
    /\ Len(skin_out.bone_count_array) = 2
    /\ skin_out.bone_count_array[1] = 2
    /\ Len(Contributing(skin_in, 2)) = 5
    /\ Len(skin_out.bone_index_array) = 6

\* the arrays as they stand when the first k welded vertices are packed
PackedUpTo(k) ==
    export_skin_quality([skin_in EXCEPT !.export_vertex_array = SubSeq(@, 1, k)])

\* C29: the weights emitted for the vertices before k are the same after
\* vertex k and all later ones are packed
C29_EarlierWeightsUntouched ==
    skin_out # NotRun =>
        \A k \in 1 .. Len(skin_in.export_vertex_array) :
            \A p \in DOMAIN PackedUpTo(k).bone_weight_array :
                skin_out.bone_weight_array[p] = PackedUpTo(k).bone_weight_array[p]

\* ------------------------------------------------------------------------
\* A single quad
\* ------------------------------------------------------------------------

\* the exported attributes of corner c of a face
CornerAttributes(m, face, c) ==
    LET v == m.vertices[face.vertices[c] + 1]
    IN  << v.co,
           IF face.use_smooth THEN v.normal ELSE face.normal,
           IF m.color_count > 0 THEN face.color[c] ELSE <<1, 1, 1>>,
           IF m.texcoordCount > 0 THEN face.uv[c] ELSE <<0, 0>>,
           IF m.texcoordCount > 1 THEN face.uv1[c] ELSE <<0, 0>> >>

\* the mesh is one quad whose four corners differ in some attribute
SingleDistinctQuad ==
    /\ Len(mesh.faces) = 1
    /\ Len(mesh.faces[1].vertices) = 4
    /\ \A a, b \in 1 .. 4 :
          a # b => CornerAttributes(mesh, mesh.faces[1], a)
                       # CornerAttributes(mesh, mesh.faces[1], b)

\* C22: a single quad with four distinct corners welds to four vertices and
\* two triangles with the index table [0,1,2,0,2,3], the corners of the
\* triangles being corners (0,1,2) and (0,2,3) of the quad
C22_SingleQuad ==
    (quality # NotRun /\ SingleDistinctQuad) =>
        /\ Len(quality.unifiedVA) = 4
        /\ Len(quality.material_table) = 2
        /\ quality.indexTable = << 0, 1, 2, 0, 2, 3 >>
        /\ \A c \in 1 .. 4 :
              quality.unifiedVA[c].vertex_index = mesh.faces[1].vertices[c]

\* a quad with a coloured corner, exported with its colour layer
C22_Witness ==
    /\ quality # NotRun
    /\ SingleDistinctQuad
    /\ mesh.faces[1].vertices = << 0, 1, 2, 4 >>
    /\ mesh.faces[1].material_index = 1
    /\ Len(quality.indexTable) = 6

\* ------------------------------------------------------------------------
\* Fan triangulation of the fast path
\* ------------------------------------------------------------------------

\* the triangles of a polygon of n corners whose first loop is `first`, as
\* loop indices: the polygon itself, or the fan (c(n-1), c(i), c(i+1))
FanTriangles(first, n) ==
    IF n = 3 THEN << << first, first + 1, first + 2 >> >>
    ELSE [ i \in 1 .. n - 2 |-> << first + n - 1, first + i - 1, first + i >> ]

\* corners a, b, c follow each other in the cyclic order of the polygon
SameWinding(a, b, c) ==
    \/ a < b /\ b < c
    \/ b < c /\ c < a
    \/ c < a /\ a < b

\* the material slot a polygon is emitted under
PolygonSlot(m, f) ==
    LET top == Len(m.materials) - 1
    IN  IF m.faces[f].material_index < top THEN m.faces[f].material_index ELSE top

\* the indices of the fan triangles of the polygons of one material slot
FanIndices(slot) ==
    Flatten([ f \in DOMAIN mesh.faces |->
        IF PolygonSlot(mesh, f) = slot
        THEN LET fan == FanTriangles(LoopStart(mesh, f), Len(mesh.faces[f].vertices))
             IN  Flatten([ t \in DOMAIN fan |->
                             [ c \in 1 .. 3 |-> fast.vert_dict[fan[t][c] + 1] ] ])
        ELSE << >> ])

\* C27: the fast path emits a polygon of n corners as n-2 triangles, for
\* n > 3 the fan (c(n-1), c(i), c(i+1)), each with three distinct corners in
\* the winding of the polygon; the mesh has 3 * sum(n-2) indices in all
C27_FanTriangulation ==
    fast # NotRun =>
        /\ \A p \in DOMAIN fast.index_arrays :
              fast.index_arrays[p].values = FanIndices(fast.index_arrays[p].material)
        /\ SumOf([ p \in DOMAIN fast.index_arrays |-> Len(fast.index_arrays[p].values) ])
              = 3 * SumOf([ f \in DOMAIN mesh.faces |-> Len(mesh.faces[f].vertices) - 2 ])
        /\ \A f \in DOMAIN mesh.faces :
              LET fan == FanTriangles(LoopStart(mesh, f), Len(mesh.faces[f].vertices))
              IN  /\ Len(fan) = Len(mesh.faces[f].vertices) - 2
                  /\ \A t \in DOMAIN fan : SameWinding(fan[t][1], fan[t][2], fan[t][3])

\* a triangle and two quads, under two materials, went through the fast path
C27_Witness ==
    /\ fast # NotRun
    /\ Len(mesh.faces) = 3
    /\ Len(mesh.faces[1].vertices) = 3
    /\ Len(mesh.faces[2].vertices) = 4
    /\ Len(mesh.faces[3].vertices) = 4
    /\ mesh.faces[2].material_index # mesh.faces[3].material_index
    /\ Len(fast.index_arrays[2].values) = 6

\* ------------------------------------------------------------------------
\* Tangents of multi-material meshes
\* ------------------------------------------------------------------------

\* the values of the vertex array of one attribute
ArrayOf(out, attrib) ==
    LET p == CHOOSE q \in DOMAIN out.vertex_arrays : out.vertex_arrays[q].attrib = attrib
    IN  out.vertex_arrays[p].values

\* the tangent every vertex has before the orthogonalization pass when every
\* triangle of every index array has been added to its three vertices
TangentsOfAllTriangles(out) ==
    AccumulateTangents(ArrayOf(out, "pos"), ArrayOf(out, "tex"),
        Flatten([p \in DOMAIN out.index_arrays |-> out.index_arrays[p].values]), 0,
        [j \in DOMAIN ArrayOf(out, "pos") |-> 0])

\* the exported tangents are those of the accumulation over all triangles
AllTrianglesAccumulated(m, out) ==
    (out # NotRun /\ has_tangents(m)) =>
        ArrayOf(out, "tang") = Orthogonalize(ArrayOf(out, "nor"), TangentsOfAllTriangles(out))

\* C23: when tangents are generated, every triangle of the mesh, in whichever
\* index array it is emitted, has its tangent added to its three vertices
\* before the orthogonalization pass
C23_EveryTriangleAccumulated ==
    /\ AllTrianglesAccumulated(mesh, quality)
    /\ AllTrianglesAccumulated(mesh, fast)

\* ------------------------------------------------------------------------
\* Claims about the mesh loop of export_objects
\* ------------------------------------------------------------------------

\* the record of the last export_objects, if the state holds one
HasLoop == run # IdleRun /\ "loop" \in DOMAIN run

\* the do_export_mesh calls of the last export_objects
LoopCalls == IF HasLoop THEN run.loop.calls ELSE << >>

\* the meshes of the mesh array the host yields a mesh for
YieldedMeshes == { d \in Range(MeshArray) : host[d] }

\* C24 as stated: in inline mode mesh_datas holds one fragment for every mesh
\* of the exported mesh objects after export_objects; in per-file mode every
\* such mesh has its own companion document instead
C24_FragmentPerMesh ==
    HasLoop =>
        IF run.loop.per_file
        THEN \A d \in Range(MeshArray) : get_meshes_file_path("mesh", d) \in files
        ELSE /\ ~run.loop.raised
             /\ \A d \in Range(MeshArray) :
                   Cardinality({ k \in DOMAIN run.loop.mesh_datas :
                                     run.loop.mesh_datas[k] = d }) = 1

\* C24, amended: export_objects runs in per-file mode; after it every mesh of
\* the exported mesh objects the host yields a mesh for has its own companion
\* document, and mesh_datas holds no fragment
C24_CompanionPerYieldedMesh ==
    HasLoop =>
        /\ run.loop.per_file
        /\ run.loop.mesh_datas = << >>
        /\ \A d \in YieldedMeshes : get_meshes_file_path("mesh", d) \in files

\* an export_objects that wrote the missing companion document of a mesh the
\* host yields and skipped a mesh whose document was there
C24_Witness ==
    /\ HasLoop
    /\ run.loop.per_file
    /\ Len(run.loop.calls) = Len(MeshArray)
    /\ YieldedMeshes = Range(MeshArray)
    /\ run.loop.calls[1].outcome = "written"
    /\ ~run.loop.calls[1].exists
    /\ get_meshes_file_path("mesh", MeshArray[1]) \in files
    /\ run.loop.calls[2].outcome = "skipped"

\* C25: a call the host yields no mesh for logs a warning, writes no artifact,
\* adds no fragment, leaves the cache entry as it was, so that the next run
\* does not skip the mesh, and the loop goes on to the next mesh
C25_NoMeshYielded ==
    \A k \in DOMAIN LoopCalls :
        LET c  == LoopCalls[k]
            fp == get_meshes_file_path("mesh", c.data)
        IN  (~c.yields /\ c.outcome # "skipped") =>
                /\ c.outcome = "warned"
                /\ fp \in files <=> fp \in run.loop.files
                /\ \A j \in DOMAIN run.loop.mesh_datas : run.loop.mesh_datas[j] # c.data
                /\ data[c.data] = c.before
                /\ do_export_mesh(run.loop.per_file, c.data, data, files, host,
                                  morph).call.outcome # "skipped"
                /\ k < Len(MeshArray) =>
                      /\ Len(LoopCalls) > k
                      /\ LoopCalls[k + 1].data = MeshArray[k + 1]

\* the cube yielded nothing, had a valid entry but no artifact, and the two
\* meshes after it were written
C25_Witness ==
    /\ HasLoop
    /\ run.loop.per_file
    /\ Len(LoopCalls) = 3
    /\ LoopCalls[1].outcome = "warned"
    /\ LoopCalls[1].cached
    /\ LoopCalls[2].outcome = "written"
    /\ LoopCalls[3].outcome = "written"

\* C30: do_export_mesh leaves the active shape key index, the show-only flag
\* and the value of every key block as they were at entry, on every exit path
C30_ShapeKeysRestored ==
    \A c \in Range(Checks) \cup Range(LoopCalls) :
        morph[c.data] = c.morph_before

\* ------------------------------------------------------------------------
\* The missing-camera warning
\* ------------------------------------------------------------------------

\* the camera objects export_object went through in the last run
ExportedCameras ==
    { doc.attached[k].node : k \in DOMAIN doc.attached } \cap { "Cam", "Eye" }

\* C26: execute logs 'No camera found in active scene layers' exactly when
\* no camera exported in the run is spawned, whatever the order the cameras
\* are visited in, and writes the scene document either way
C26_NoCameraWarning ==
    doc # NotRun =>
        /\ (\E w \in DOMAIN doc.warnings :
                doc.warnings[w] = "No camera found in active scene layers")
              <=> (\A c \in ExportedCameras : ~ doc.tree.spawn[c])
        /\ "objects" \in DOMAIN doc.output

\* ------------------------------------------------------------------------
\* Claims about a repeated execute run
\* ------------------------------------------------------------------------

\* the cache checks of a run that immediately follows a finished run
RepeatedChecks ==
    IF Running /\ run.repeated THEN Range(run.checks) ELSE {}

\* C28: in a run that immediately repeats a finished run over the unchanged
\* scene, every do_export_mesh call whose artifact is present returns at the
\* cache check, for skinned and unskinned objects alike.
C28_RepeatedRunSkips ==
    \A c \in RepeatedChecks : c.exists => c.outcome = "skipped"

=============================================================================
